---- MODULE Spec2Model ----
(***************************************************************************)
(* Model of the rkt image store (store/casref/rwcasref): a content         *)
(* addressed blob store with a ref index kept in two bolt databases, blob  *)
(* files kept by diskv, and per-digest advisory key locks.                 *)
(*                                                                         *)
(* Strings are sequences of one-character strings, so that key             *)
(* construction, prefix scans, path.Base and url.QueryEscape are computed  *)
(* the way the code computes them.                                         *)
(***************************************************************************)
EXTENDS Integers, Sequences, FiniteSets, TLC

VARIABLES
    blobDB,   \* bucket "blobinfo" of <dir>/blobdb/db : key -> value
    refDB,    \* bucket "ref" of <dir>/refdb/db       : key -> value
    files,    \* diskv blob files                      : digest -> content
    locks,    \* key locks under <dir>/bloblocks       : set of [p, key, mode]
    pc,       \* position of every process inside its current operation
    op,       \* arguments and locals of the current operation of a process
    procs,    \* the processes that use the store directory
    budget,   \* operations that may still be started
    query,    \* the argument last handed to a function of the store by a caller
    answer,   \* what that call returned
    treeDB,   \* bucket "info" of the tree store's <dir>/db/db : key -> value
    treeDirs, \* directories <dir>/tree/<id> of the tree store : id -> content
    cache     \* files of the manifest cache <dir>/cache : digest -> bytes

vars == <<blobDB, refDB, files, locks, pc, op, procs, budget, query, answer,
          treeDB, treeDirs, cache>>

resolveVars == <<query, answer>>
treeVars == <<treeDB, treeDirs>>
\* what a step inside an operation of the image store leaves alone
envVars == <<procs, budget, treeVars, cache>>

----------------------------------------------------------------------------
(* Bounds of the model *)

MaxCalls == 3        \* operations started by the concurrent processes
MaxSeqCalls == 7     \* operations started by a process that runs alone
NumContents == 2     \* distinct byte streams written by WriteBlob
HexLen == 3          \* hex characters kept of a hash sum
NumResolveContents == 3 \* byte streams per algorithm when resolving digests

\* The processes that share the store directory.  Every conflict on a key
\* lock or on a database file is between two operations, so two processes
\* are modelled.
Procs == {1, 2}
Contents == 0..(NumContents - 1)

----------------------------------------------------------------------------
(* Strings *)

S_sha256 == <<"s","h","a","2","5","6">>
S_sha512 == <<"s","h","a","5","1","2">>
S_md5 == <<"m","d","5">>
S_digest == <<"d","i","g","e","s","t">>
S_mediatype == <<"m","e","d","i","a","t","y","p","e">>
S_id == <<"i","d">>
S_datatype == <<"d","a","t","a","t","y","p","e">>
Slash == <<"/">>
Hyphen == <<"-">>

HexDigits == {"0","1","2","3","4","5","6","7","8","9",
              "a","b","c","d","e","f","A","B","C","D","E","F"}
Letters == {"g","h","i","l","m","n","o","p","r","s","t","x","y","G","X"}
\* the character class [a-zA-Z0-9-_+.] of digestRegexp
DigestClass == HexDigits \cup Letters \cup {"-","_","+","."}

Contains(s, ch) == \E i \in 1..Len(s) : s[i] = ch

HasPrefix(s, prefix) ==
    /\ Len(prefix) <= Len(s)
    /\ SubSeq(s, 1, Len(prefix)) = prefix

\* index of the first occurrence of ch in s, 0 when there is none
IndexOf(s, ch) ==
    IF Contains(s, ch)
    THEN CHOOSE i \in 1..Len(s) : s[i] = ch /\ \A j \in 1..(i-1) : s[j] # ch
    ELSE 0

\* index of the last occurrence of ch in s, 0 when there is none
LastIndexOf(s, ch) ==
    IF Contains(s, ch)
    THEN CHOOSE i \in 1..Len(s) : s[i] = ch /\ \A j \in (i+1)..Len(s) : s[j] # ch
    ELSE 0

\* strings.Replace(s, old, new, 1) for one-character old and new
ReplaceFirst(s, old, new) ==
    LET i == IndexOf(s, old)
    IN IF i = 0 THEN s ELSE [s EXCEPT ![i] = new]

\* strings.Split(s, sep)[0]
FirstPart(s, sep) ==
    LET i == IndexOf(s, sep)
    IN IF i = 0 THEN s ELSE SubSeq(s, 1, i - 1)

RECURSIVE TrimRightSlash(_)
TrimRightSlash(s) ==
    IF s # <<>> /\ s[Len(s)] = "/"
    THEN TrimRightSlash(SubSeq(s, 1, Len(s) - 1))
    ELSE s

\* path.Base
PathBase(s) ==
    IF s = <<>> THEN <<".">>
    ELSE LET t == TrimRightSlash(s)
         IN IF t = <<>> THEN Slash
            ELSE SubSeq(t, LastIndexOf(t, "/") + 1, Len(t))

\* url.QueryEscape on the characters that occur in ref ids
EscapeChar(ch) ==
    CASE ch = "/" -> <<"%","2","F">>
      [] ch = ":" -> <<"%","3","A">>
      [] ch = "=" -> <<"%","3","D">>
      [] ch = "?" -> <<"%","3","F">>
      [] ch = "&" -> <<"%","2","6">>
      [] ch = "," -> <<"%","2","C">>
      [] OTHER -> <<ch>>

RECURSIVE QueryEscape(_)
QueryEscape(s) ==
    IF s = <<>> THEN <<>>
    ELSE EscapeChar(Head(s)) \o QueryEscape(Tail(s))

UnescapeCode(a, b) ==
    CASE a = "2" /\ b = "F" -> "/"
      [] a = "3" /\ b = "A" -> ":"
      [] a = "3" /\ b = "D" -> "="
      [] a = "3" /\ b = "F" -> "?"
      [] a = "2" /\ b = "6" -> "&"
      [] a = "2" /\ b = "C" -> ","
      [] OTHER -> "%"

\* url.QueryUnescape
RECURSIVE QueryUnescape(_)
QueryUnescape(s) ==
    IF s = <<>> THEN <<>>
    ELSE IF Head(s) = "%" /\ Len(s) >= 3
         THEN <<UnescapeCode(s[2], s[3])>> \o QueryUnescape(SubSeq(s, 4, Len(s)))
         ELSE <<Head(s)>> \o QueryUnescape(Tail(s))

\* the bytes that order the strings of the model, in ascending order
ByteOrder == <<"%", "&", ",", "-", ".", "/", "0", "1", "2", "3", "4", "5", "6",
              "7", "8", "9", ":", "=", "?", "A", "B", "C", "D", "E", "F", "_",
              "a", "b", "c", "d", "e", "f", "g", "h", "i", "j", "k", "l", "m",
              "n", "o", "p", "q", "r", "s", "t", "u", "v", "w", "x", "y", "z">>
Ord(c) == CHOOSE i \in 1..Len(ByteOrder) : ByteOrder[i] = c

\* s < t for strings, as Go compares them
RECURSIVE StrLess(_, _)
StrLess(s, t) ==
    IF t = <<>> THEN FALSE
    ELSE IF s = <<>> THEN TRUE
    ELSE IF Head(s) # Head(t) THEN Ord(Head(s)) < Ord(Head(t))
    ELSE StrLess(Tail(s), Tail(t))

RECURSIVE InsertSorted(_, _)
InsertSorted(k, keys) ==
    IF keys = <<>> THEN <<k>>
    ELSE IF StrLess(k, Head(keys)) THEN <<k>> \o keys
    ELSE <<Head(keys)>> \o InsertSorted(k, Tail(keys))

\* sort.Strings
RECURSIVE SortStrings(_)
SortStrings(keys) ==
    IF keys = <<>> THEN <<>>
    ELSE InsertSorted(Head(keys), SortStrings(Tail(keys)))

\* strings.Split(s, sep) for a one-character sep
RECURSIVE Split(_, _)
Split(s, sep) ==
    LET i == IndexOf(s, sep)
    IN IF i = 0 THEN <<s>>
       ELSE <<SubSeq(s, 1, i - 1)>> \o Split(SubSeq(s, i + 1, Len(s)), sep)

\* strings.SplitN(s, sep, 2)
SplitN2(s, sep) ==
    LET i == IndexOf(s, sep)
    IN IF i = 0 THEN <<s>>
       ELSE <<SubSeq(s, 1, i - 1), SubSeq(s, i + 1, Len(s))>>

\* strings.Join(parts, sep)
RECURSIVE Join(_, _)
Join(parts, sep) ==
    IF parts = <<>> THEN <<>>
    ELSE IF Len(parts) = 1 THEN parts[1]
    ELSE parts[1] \o sep \o Join(Tail(parts), sep)

\* the orders in which a range over a map with these keys can yield them
RangeOrders(keys) ==
    {o \in [1..Cardinality(keys) -> keys] :
        \A i, j \in 1..Cardinality(keys) : o[i] = o[j] => i = j}

----------------------------------------------------------------------------
(* pkg/digest *)

algorithms == {S_sha256, S_sha512}

PrefixLen(a) == Len(a)

\* the lowercase hex rendering of the hash sum of content c: the hash is
\* taken to be collision free, the sum of stream number c is c itself
RECURSIVE HexOf(_, _)
HexOf(n, width) ==
    IF width = 0 THEN <<>>
    ELSE HexOf(n \div 2, width - 1) \o <<IF n % 2 = 0 THEN "0" ELSE "1">>

\* Digester.Digest: "<algorithm>-<hex>"
DigestOf(a, c) == a \o Hyphen \o HexOf(c, HexLen)

\* digestRegexp.MatchString: the expression is not anchored, so it matches
\* when some character of the class is followed by '-' and a hex digit
MatchDigestRegexp(s) ==
    \E j \in 2..(Len(s) - 1) :
        /\ s[j] = "-"
        /\ s[j-1] \in DigestClass
        /\ s[j+1] \in HexDigits

\* ParseDigest: [err, digest, alg]
ParseDigest(ds0) ==
    LET ds == ReplaceFirst(ds0, ":", "-")
        a == FirstPart(ds, "-")
    IN IF ~MatchDigestRegexp(ds)
       THEN [err |-> "wrong digest", digest |-> <<>>, alg |-> <<>>]
       ELSE IF a \notin algorithms
       THEN [err |-> "unknown digest", digest |-> <<>>, alg |-> <<>>]
       ELSE [err |-> "", digest |-> ds, alg |-> a]

----------------------------------------------------------------------------
(* bolt buckets: a bucket is a function from keys to values *)

Put(b, k, v) == [x \in (DOMAIN b) \cup {k} |-> IF x = k THEN v ELSE b[x]]

Delete(b, k) == [x \in (DOMAIN b) \ {k} |-> b[x]]

\* c.Seek(prefix) followed by c.Next() while bytes.HasPrefix(k, prefix)
Scan(b, prefix) == {k \in DOMAIN b : HasPrefix(k, prefix)}

EmptyBucket == [x \in {} |-> 0]

----------------------------------------------------------------------------
(* blobinfo.go *)

\* a nil map[string][]byte, and a nil []byte
NilMap == "nil"
NilBytes == <<>>

NilBlobInfo == [Digest |-> <<>>, MediaType |-> <<>>, Size |-> 0, Data |-> NilMap]

\* checkKeyPart panics when the key part contains '/'
checkKeyPart(k) == ~Contains(k, "/")

blobInfoDigestKey(digest) == S_digest \o Slash \o digest

blobInfoMediaTypeDigestKey(mediaType, digest) ==
    S_mediatype \o Slash \o mediaType \o Slash \o digest

\* TRUE when building the media type index key panics
blobInfoMediaTypeDigestKeyPanics(mediaType, digest) ==
    \/ ~checkKeyPart(mediaType)
    \/ ~checkKeyPart(digest)
    \/ mediaType = <<>>

writeBlobInfo(b, bi) ==
    Put(Put(b, blobInfoDigestKey(bi.Digest), bi),
        blobInfoMediaTypeDigestKey(bi.MediaType, bi.Digest), NilBlobInfo)

hasBlobInfo(b, digest) == blobInfoDigestKey(digest) \in DOMAIN b

getBlobInfo(b, digest) ==
    IF hasBlobInfo(b, digest) THEN b[blobInfoDigestKey(digest)] ELSE NilBlobInfo

\* a lookup of the exact key in place of the prefix scan
getBlobInfosWithDigestPrefix_exactKey(b, digestPrefix) ==
    {b[k] : k \in {x \in DOMAIN b : x = blobInfoDigestKey(digestPrefix)}}

getBlobInfosWithDigestPrefix(b, digestPrefix) ==
    {b[k] : k \in Scan(b, blobInfoDigestKey(digestPrefix))}

\* a removal that deletes the media type index entry and keeps the primary row
removeBlobInfo_indexOnly(b, digest) ==
    IF ~hasBlobInfo(b, digest) THEN b
    ELSE Delete(b, blobInfoMediaTypeDigestKey(getBlobInfo(b, digest).MediaType, digest))

removeBlobInfo(b, digest) ==
    IF ~hasBlobInfo(b, digest) THEN b
    ELSE Delete(Delete(b, blobInfoDigestKey(digest)),
                blobInfoMediaTypeDigestKey(getBlobInfo(b, digest).MediaType, digest))

----------------------------------------------------------------------------
(* blobdata.go *)

\* tx.Bucket of a bucket that was never created
NoBucket == "nil"

\* the bucket "blobdata" of <dir>/blobdb/db: initBlobDB creates the bucket
\* "blobinfo" only, and no other code creates a bucket in this database
blobdataBucket == NoBucket

\* the primary key of a BlobData row: the data type is not part of it
blobDataDigestDataTypeKey(digest, dataType) == S_digest \o Slash \o digest

blobDataDataTypeDigestKey(dataType, digest) ==
    S_datatype \o Slash \o dataType \o Slash \o digest

\* [err, b]: the error returned and the bucket after the call
writeBlobData(b, bd) ==
    IF b = NoBucket
    THEN [err |-> "bucket does not exists", b |-> b]
    ELSE [err |-> "",
          b |-> Put(Put(b, blobDataDigestDataTypeKey(bd.Digest, bd.DataType), bd),
                    blobDataDataTypeDigestKey(bd.DataType, bd.Digest), NilBytes)]

getBlobData(b, digest, dataType) ==
    IF b = NoBucket
    THEN [err |-> "bucket does not exists", Data |-> NilBytes]
    ELSE IF blobDataDigestDataTypeKey(digest, dataType) \in DOMAIN b
    THEN [err |-> "", Data |-> b[blobDataDigestDataTypeKey(digest, dataType)].Data]
    ELSE [err |-> "", Data |-> NilBytes]

\* the loop of WriteBlob over the entries of blobData that are left in types;
\* it stops at the first error
RECURSIVE writeBlobDatas(_, _, _, _)
writeBlobDatas(b, digest, blobData, types) ==
    IF types = {} THEN [err |-> "", b |-> b]
    ELSE LET t == CHOOSE x \in types : TRUE
             r == writeBlobData(b, [Digest |-> digest, DataType |-> t,
                                    Data |-> blobData[t]])
         IN IF r.err # "" THEN r
            ELSE writeBlobDatas(r.b, digest, blobData, types \ {t})

----------------------------------------------------------------------------
(* Store.ResolveDigest: [status, digest] *)

ResolveDigest(b, inDigest) ==
    LET p == ParseDigest(inDigest)
        blobInfos == getBlobInfosWithDigestPrefix(b, p.digest)
    IN IF p.err # ""
       THEN [status |-> "parse", digest |-> <<>>]
       ELSE IF Len(p.digest) < PrefixLen(p.alg) + 3
       THEN [status |-> "short", digest |-> <<>>]
       ELSE IF ~checkKeyPart(p.digest)
       THEN [status |-> "panic", digest |-> <<>>]
       ELSE IF Cardinality(blobInfos) = 0
       THEN [status |-> "notfound", digest |-> <<>>]
       ELSE IF Cardinality(blobInfos) # 1
       THEN [status |-> "ambiguous", digest |-> <<>>]
       ELSE [status |-> "ok", digest |-> (CHOOSE bi \in blobInfos : TRUE).Digest]

----------------------------------------------------------------------------
(* ref.go *)

NilRef == [ID |-> <<>>, Digest |-> <<>>]

refIDKey(id) == S_id \o Slash \o id

refDigestIDKey(digest, id) == S_digest \o Slash \o digest \o Slash \o QueryEscape(id)

writeRef(b, ref) ==
    Put(Put(b, refIDKey(ref.ID), ref),
        refDigestIDKey(ref.Digest, ref.ID), NilRef)

hasRef(b, id) == refIDKey(id) \in DOMAIN b

getRef(b, id) == IF hasRef(b, id) THEN b[refIDKey(id)] ELSE NilRef

\* the ids found by the prefix scan of the digest index
refIDsByDigest(b, digest) ==
    {QueryUnescape(PathBase(k)) : k \in Scan(b, refDigestIDKey(digest, <<>>))}

\* getRefsByDigest panics when an index entry names an id without primary row
getRefsByDigestPanics(b, digest) ==
    \E id \in refIDsByDigest(b, digest) : ~hasRef(b, id)

getRefsByDigest(b, digest) ==
    {getRef(b, id) : id \in refIDsByDigest(b, digest)}

getAllRefs(b) == {b[k] : k \in Scan(b, refIDKey(<<>>))}

removeRef(b, id) ==
    IF ~hasRef(b, id) THEN b
    ELSE Delete(Delete(b, refIDKey(id)),
                refDigestIDKey(getRef(b, id).Digest, id))

\* the loop of RemoveBlob over the refs found for the digest
RECURSIVE removeRefs(_, _)
removeRefs(b, refs) ==
    IF refs = {} THEN b
    ELSE LET ref == CHOOSE r \in refs : TRUE
         IN removeRefs(removeRef(b, ref.ID), refs \ {ref})

----------------------------------------------------------------------------
(* pkg/lock key locks: flock(2) on <lockDir>/<key>; a process that ends      *)
(* gives up its locks                                                        *)

CanLockExclusive(p, key) == \A l \in locks : l.key # key

\* a shared lock that is granted whatever locks are held on the key
CanLockShared_always(p, key) == TRUE

CanLockShared(p, key) == \A l \in locks : l.key = key => l.mode = "S"

Lock(p, key, mode) == locks \cup {[p |-> p, key |-> key, mode |-> mode]}

\* blobLock.Close()
Unlock(p) == {l \in locks : l.p # p}

----------------------------------------------------------------------------
(* Inputs of the store model *)

MT_aci == <<"a","c","i">>
MT_text_plain == <<"t","/","p">>
MediaTypes == {MT_aci, MT_text_plain}

ID_appc == <<"a",":","x","/","y">>
ID_docker == <<"d",":","r","/","z">>
IDs == {ID_appc, ID_docker}

FullDigests == {DigestOf(S_sha256, c) : c \in Contents}

\* a partial digest: all but the last hex character of the digest of stream 0
PartialDigest ==
    LET d == DigestOf(S_sha256, 0) IN SubSeq(d, 1, Len(d) - 1)

Queries == FullDigests \cup {PartialDigest}

\* Go error values: errors.New gives a value that equals only itself, and
\* errwrap.Wrap(outer, inner) gives a new value that holds both
NilErr == <<>>
ErrDigestNotFound == <<"no digest found">>
ErrStaleData == <<"some stale data has been left on disk">>
ErrErase == <<"cannot remove blob from disk store">>
Wrap(outer, inner) == outer \o inner

\* the data types and maps of auxiliary data handed to the store
DT_aciinfo == <<"a","c","i","i","n","f","o">>
DT_imageinfo == <<"i","m","a","g","e","i","n","f","o">>
DataTypes == {DT_aciinfo, DT_imageinfo}
Bytes == {<<"b","0">>, <<"b","1">>}
NoBlobData == <<>>
BlobDatas == {NoBlobData,
              [t \in DataTypes |-> IF t = DT_aciinfo THEN <<"b","0">> ELSE <<"b","1">>]}

NoOp == [name |-> "", id |-> <<>>, d |-> <<>>, force |-> FALSE, c |-> 0,
         mt |-> <<>>, bd |-> NoBlobData, referenced |-> FALSE,
         dt |-> <<>>, data |-> NilBytes, err |-> NilErr,
         rebuild |-> FALSE, debris |-> FALSE, rendered |-> FALSE,
         sum |-> <<>>, cached |-> FALSE, res |-> ""]

\* refs whose primary row points at digest d
RefsPointingAt(b, d) == {id \in IDs : hasRef(b, id) /\ getRef(b, id).Digest = d}

\* the store right after NewStore: both buckets exist and are empty
InitStore ==
    /\ blobDB = EmptyBucket
    /\ refDB = EmptyBucket
    /\ files = EmptyBucket
    /\ locks = {}
    /\ pc = [p \in Procs |-> "idle"]
    /\ op = [p \in Procs |-> NoOp]
    /\ query = <<>>
    /\ answer = [status |-> "", digest |-> <<>>]
    /\ treeDB = EmptyBucket
    /\ treeDirs = EmptyBucket
    /\ cache = EmptyBucket

\* concurrent processes
Init ==
    /\ InitStore
    /\ procs = Procs
    /\ budget = MaxCalls

\* one process that runs alone
InitSeq ==
    /\ InitStore
    /\ procs = {1}
    /\ budget = MaxSeqCalls

\* process p starts an operation of the manifest cache
CallCache(p) ==
    /\ p \in procs
    /\ pc[p] = "idle"
    /\ budget > 0
    /\ budget' = budget - 1
    /\ procs' = procs
    /\ UNCHANGED treeVars

\* process p starts an operation
Call(p) ==
    /\ CallCache(p)
    /\ cache' = cache

\* the operation of p ends with result r, which stays in op[p] until p starts
\* its next operation; the deferred Close gives up the lock
Finish(p, o, r) ==
    /\ pc' = [pc EXCEPT ![p] = "idle"]
    /\ op' = [op EXCEPT ![p] = [o EXCEPT !.res = r]]
    /\ locks' = Unlock(p)

\* the first step of every operation that takes a digest: ResolveDigest
Resolve(p, o, q, next) ==
    LET r == ResolveDigest(blobDB, q)
    IN /\ Call(p)
       /\ IF r.status = "ok"
          THEN /\ pc' = [pc EXCEPT ![p] = next]
               /\ op' = [op EXCEPT ![p] = [o EXCEPT !.d = r.digest]]
               /\ locks' = locks
          ELSE Finish(p, o, IF r.status = "panic" THEN "panic" ELSE "err:resolve")
       /\ UNCHANGED <<blobDB, refDB, files, resolveVars>>

----------------------------------------------------------------------------
(* Store.WriteBlob *)

\* the stream is copied to a temporary file and hashed
CallWriteBlob(p, c, mt, bd) ==
    /\ Call(p)
    /\ pc' = [pc EXCEPT ![p] = "wb_lock"]
    /\ op' = [op EXCEPT ![p] = [NoOp EXCEPT !.name = "WriteBlob", !.c = c,
                                  !.mt = mt, !.bd = bd,
                                  !.d = DigestOf(S_sha256, c)]]
    /\ UNCHANGED <<blobDB, refDB, files, locks, resolveVars>>

WriteBlobLock(p) ==
    /\ pc[p] = "wb_lock"
    /\ CanLockExclusive(p, op[p].d)
    /\ locks' = Lock(p, op[p].d, "X")
    /\ pc' = [pc EXCEPT ![p] = "wb_import"]
    /\ UNCHANGED <<blobDB, refDB, files, op, resolveVars, envVars>>

\* blobDiskv.Import(tmp, digest, move=true): the file named by the digest is
\* replaced by the temporary file
\* an import that names the file by a truncated digest
Import_truncatedKey(fs, key, content) == Put(fs, SubSeq(key, 1, Len(key) - 1), content)

Import(fs, key, content) == Put(fs, key, content)

WriteBlobImport(p) ==
    /\ pc[p] = "wb_import"
    /\ files' = Import(files, op[p].d, op[p].c)
    /\ pc' = [pc EXCEPT ![p] = "wb_tx"]
    /\ UNCHANGED <<blobDB, refDB, locks, op, resolveVars, envVars>>

\* the transaction on blobDB: writeBlobInfo, writeBlobData for every entry of
\* blobData, writeBlobInfo.  An error of writeBlobData rolls the transaction
\* back.
WriteBlobTx(p) ==
    /\ pc[p] = "wb_tx"
    /\ LET o == op[p]
           bi == [Digest |-> o.d, MediaType |-> o.mt, Size |-> o.c + 1,
                  Data |-> NilMap]
       IN IF blobInfoMediaTypeDigestKeyPanics(o.mt, o.d)
          THEN /\ Finish(p, o, "panic")
               /\ blobDB' = blobDB
          ELSE IF writeBlobDatas(blobdataBucket, o.d, o.bd, DOMAIN o.bd).err # ""
          THEN /\ Finish(p, o, "err:db")
               /\ blobDB' = blobDB
          ELSE /\ Finish(p, o, "ok")
               /\ blobDB' = writeBlobInfo(writeBlobInfo(blobDB, bi), bi)
    /\ UNCHANGED <<refDB, files, resolveVars, envVars>>

----------------------------------------------------------------------------
(* Store.ReadBlob *)

CallReadBlob(p, q) ==
    /\ Resolve(p, [NoOp EXCEPT !.name = "ReadBlob"], q, "rb_lock")

ReadBlobLock(p) ==
    /\ pc[p] = "rb_lock"
    /\ CanLockShared(p, op[p].d)
    /\ locks' = Lock(p, op[p].d, "S")
    /\ pc' = [pc EXCEPT ![p] = "rb_open"]
    /\ UNCHANGED <<blobDB, refDB, files, op, resolveVars, envVars>>

\* the blob info is looked up, the stream is opened and ReadBlob returns: the
\* deferred blobLock.Close() runs on return, the stream stays with the caller
ReadBlobOpen(p) ==
    /\ pc[p] = "rb_open"
    /\ LET o == op[p]
       IN IF ~hasBlobInfo(blobDB, o.d)
          THEN Finish(p, o, "err:notfound")
          ELSE IF o.d \notin DOMAIN files
          THEN Finish(p, o, "err:io")
          ELSE /\ pc' = [pc EXCEPT ![p] = "stream"]
               /\ op' = [op EXCEPT ![p] = [o EXCEPT !.c = files[o.d], !.res = "ok"]]
               /\ locks' = Unlock(p)
    /\ UNCHANGED <<blobDB, refDB, files, resolveVars, envVars>>

\* the caller has read the stream and closes it
CloseStream(p) ==
    /\ pc[p] = "stream"
    /\ pc' = [pc EXCEPT ![p] = "idle"]
    /\ op' = [op EXCEPT ![p] = NoOp]
    /\ UNCHANGED <<blobDB, refDB, files, locks, resolveVars, envVars>>

----------------------------------------------------------------------------
(* Store.HasBlob, Store.SetRef, Store.RemoveRef, Store.GetRef *)

\* a store that takes every digest it is asked about to be present
HasBlob_always(b, digest) == TRUE

HasBlob(b, digest) == hasBlobInfo(b, digest)

CallSetRef(p, id, q) ==
    /\ Resolve(p, [NoOp EXCEPT !.name = "SetRef", !.id = id], q, "sr_lock")

SetRefLock(p) ==
    /\ pc[p] = "sr_lock"
    /\ CanLockExclusive(p, op[p].d)
    /\ locks' = Lock(p, op[p].d, "X")
    /\ pc' = [pc EXCEPT ![p] = "sr_has"]
    /\ UNCHANGED <<blobDB, refDB, files, op, resolveVars, envVars>>

SetRefHasBlob(p) ==
    /\ pc[p] = "sr_has"
    /\ IF HasBlob(blobDB, op[p].d)
       THEN /\ pc' = [pc EXCEPT ![p] = "sr_write"]
            /\ UNCHANGED <<op, locks>>
       ELSE Finish(p, op[p], "err:notfound")
    /\ UNCHANGED <<blobDB, refDB, files, resolveVars, envVars>>

SetRefWrite(p) ==
    /\ pc[p] = "sr_write"
    /\ refDB' = writeRef(refDB, [ID |-> op[p].id, Digest |-> op[p].d])
    /\ Finish(p, op[p], "ok")
    /\ UNCHANGED <<blobDB, files, resolveVars, envVars>>

RemoveRef(p, id) ==
    /\ Call(p)
    /\ refDB' = removeRef(refDB, id)
    /\ Finish(p, [NoOp EXCEPT !.name = "RemoveRef", !.id = id], "ok")
    /\ UNCHANGED <<blobDB, files, resolveVars>>

\* GetRef returns (ref, nil); the ref is nil when the id has no primary row
GetRef(p, id) ==
    /\ Call(p)
    /\ Finish(p, [NoOp EXCEPT !.name = "GetRef", !.id = id,
                              !.d = getRef(refDB, id).Digest], "ok")
    /\ UNCHANGED <<blobDB, refDB, files, resolveVars>>

----------------------------------------------------------------------------
(* Store.RemoveBlob *)

CallRemoveBlob(p, q, force) ==
    /\ Resolve(p, [NoOp EXCEPT !.name = "RemoveBlob", !.force = force], q, "rm_lock")

RemoveBlobLock(p) ==
    /\ pc[p] = "rm_lock"
    /\ CanLockExclusive(p, op[p].d)
    /\ locks' = Lock(p, op[p].d, "X")
    /\ pc' = [pc EXCEPT ![p] = "rm_refs"]
    /\ UNCHANGED <<blobDB, refDB, files, op, resolveVars, envVars>>

\* the transaction on refDB, and the test of len(refs) that follows it
RemoveBlobRefs(p) ==
    /\ pc[p] = "rm_refs"
    /\ LET o == [op[p] EXCEPT !.referenced = (RefsPointingAt(refDB, op[p].d) # {})]
           refs == getRefsByDigest(refDB, o.d)
       IN IF getRefsByDigestPanics(refDB, o.d)
          THEN /\ Finish(p, o, "panic")
               /\ refDB' = refDB
          ELSE IF refs # {} /\ ~o.force
          THEN /\ Finish(p, o, "err:referenced")
               /\ refDB' = refDB
          ELSE IF refs # {}
          THEN /\ Finish(p, o, "err:refs-removed")
               /\ refDB' = removeRefs(refDB, refs)
          ELSE /\ pc' = [pc EXCEPT ![p] = "rm_info"]
               /\ op' = [op EXCEPT ![p] = o]
               /\ UNCHANGED <<refDB, locks>>
    /\ UNCHANGED <<blobDB, files, resolveVars, envVars>>

\* the transaction on blobDB
RemoveBlobInfo(p) ==
    /\ pc[p] = "rm_info"
    /\ IF ~hasBlobInfo(blobDB, op[p].d)
       THEN /\ Finish(p, op[p], "err:notfound")
            /\ blobDB' = blobDB
       ELSE /\ blobDB' = removeBlobInfo(blobDB, op[p].d)
            /\ pc' = [pc EXCEPT ![p] = "rm_erase"]
            /\ UNCHANGED <<op, locks>>
    /\ UNCHANGED <<refDB, files, resolveVars, envVars>>

\* blobDiskv.Erase: the unlink can fail, and does when there is no file
RemoveBlobErase(p, fails) ==
    /\ pc[p] = "rm_erase"
    /\ IF fails \/ op[p].d \notin DOMAIN files
       THEN /\ Finish(p, [op[p] EXCEPT !.err = Wrap(ErrStaleData, ErrErase)],
                       "ErrStaleData")
            /\ files' = files
       ELSE /\ Finish(p, op[p], "ok")
            /\ files' = Delete(files, op[p].d)
    /\ UNCHANGED <<blobDB, refDB, resolveVars, envVars>>

----------------------------------------------------------------------------
(* The store used by concurrent processes *)

Next ==
    \E p \in Procs :
        \/ \E c \in Contents, mt \in MediaTypes, bd \in BlobDatas : CallWriteBlob(p, c, mt, bd)
        \/ WriteBlobLock(p)
        \/ WriteBlobImport(p)
        \/ WriteBlobTx(p)
        \/ \E q \in Queries : CallReadBlob(p, q)
        \/ ReadBlobLock(p)
        \/ ReadBlobOpen(p)
        \/ CloseStream(p)
        \/ \E id \in IDs, q \in Queries : CallSetRef(p, id, q)
        \/ SetRefLock(p)
        \/ SetRefHasBlob(p)
        \/ SetRefWrite(p)
        \/ \E id \in IDs : RemoveRef(p, id)
        \/ \E id \in IDs : GetRef(p, id)
        \/ \E q \in Queries, force \in BOOLEAN : CallRemoveBlob(p, q, force)
        \/ RemoveBlobLock(p)
        \/ RemoveBlobRefs(p)
        \/ RemoveBlobInfo(p)
        \/ \E fails \in BOOLEAN : RemoveBlobErase(p, fails)

Spec == Init /\ [][Next]_vars

SeqSpec == InitSeq /\ [][Next]_vars

TypeOK ==
    /\ \A p \in Procs : pc[p] \in {"idle", "stream", "wb_lock", "wb_import",
                                   "wb_tx", "rb_lock", "rb_open", "sr_lock", "sr_has",
                                   "sr_write", "rm_lock", "rm_refs", "rm_info", "rm_erase",
                                   "wd_lock", "wd_tx", "rd_lock", "rd_get",
                                   "tr_lock", "tr_check", "tm_lock", "t_stat",
                                   "t_rminfo", "t_rmdir", "t_mkdir", "t_aci",
                                   "t_sum", "t_info", "tc_lock", "tc_check"}
    /\ \A l \in locks : l.p \in Procs

----------------------------------------------------------------------------
(* ResolveDigest on its own: blobs of both algorithms are committed and     *)
(* removed, and digest strings of every shape are resolved                  *)

ResolveContents == 0..(NumResolveContents - 1)

ResolveDigests == {DigestOf(a, c) : a \in algorithms, c \in ResolveContents}

\* the prefixes of a digest that keep at least one hex character
PartialsOf(d) == {SubSeq(d, 1, n) : n \in (IndexOf(d, "-") + 1)..Len(d)}

WithColon(q) == ReplaceFirst(q, "-", ":")

ResolveQueries ==
    LET partials == UNION {PartialsOf(d) : d \in ResolveDigests}
    IN partials
       \cup {WithColon(q) : q \in partials}
       \cup {S_md5 \o Hyphen \o <<"0","0">>,
             S_sha256 \o Hyphen \o <<"0","0","/">>,
             S_sha256 \o Hyphen \o <<"0","A">>,
             S_sha256 \o <<"0","0">>,
             S_sha256 \o Hyphen \o <<"0","0">> \o Hyphen \o <<"0">>}

NoAnswer == [status |-> "", digest |-> <<>>]

InitResolve ==
    /\ InitStore
    /\ procs = {}
    /\ budget = 0

\* the committed transaction of a WriteBlob of stream c under algorithm a
CommitBlob(a, c) ==
    /\ blobDB' = writeBlobInfo(blobDB, [Digest |-> DigestOf(a, c),
                                        MediaType |-> MT_aci, Size |-> c + 1,
                                        Data |-> NilMap])
    /\ query' = <<>>
    /\ answer' = NoAnswer
    /\ UNCHANGED <<refDB, files, locks, pc, op, envVars>>

\* the committed transaction of a RemoveBlob of digest d
DropBlob(d) ==
    /\ hasBlobInfo(blobDB, d)
    /\ blobDB' = removeBlobInfo(blobDB, d)
    /\ query' = <<>>
    /\ answer' = NoAnswer
    /\ UNCHANGED <<refDB, files, locks, pc, op, envVars>>

CallResolveDigest(q) ==
    /\ query' = q
    /\ answer' = ResolveDigest(blobDB, q)
    /\ UNCHANGED <<blobDB, refDB, files, locks, pc, op, envVars>>

NextResolve ==
    \/ \E a \in algorithms, c \in ResolveContents : CommitBlob(a, c)
    \/ \E d \in ResolveDigests : DropBlob(d)
    \/ \E q \in ResolveQueries : CallResolveDigest(q)

ResolveSpec == InitResolve /\ [][NextResolve]_vars

----------------------------------------------------------------------------
(* Properties of RemoveBlob and of the ref index *)

LastOp(p, name) == p \in procs /\ pc[p] = "idle" /\ op[p].name = name

\* no operation of the store is in progress (an open stream is the caller's)
Quiescent == \A p \in Procs : pc[p] \in {"idle", "stream"}

\* C1: a forced RemoveBlob of a blob that has refs returns success, and
\* afterwards the blob has no BlobInfo, no ref points at it, and unless stale
\* data is reported it has no file.
C1_ForcedRemoveBlobRemoves ==
    \A p \in Procs :
        (LastOp(p, "RemoveBlob") /\ op[p].force /\ op[p].referenced
         /\ op[p].res # "panic")
        => /\ op[p].res \in {"ok", "ErrStaleData"}
           /\ ~hasBlobInfo(blobDB, op[p].d)
           /\ RefsPointingAt(refDB, op[p].d) = {}
           /\ (op[p].res = "ok" => op[p].d \notin DOMAIN files)

\* the step of p that runs the refs transaction of RemoveBlob
RemoveBlobRefsStep(p) == pc[p] = "rm_refs" /\ pc'[p] # "rm_refs"

\* C2: RemoveBlob without force of a blob that has a ref returns an error and
\* changes neither the BlobInfo, nor the file, nor any ref row or index entry.
C2_UnforcedRemoveBlobRefused ==
    [][\A p \in Procs :
          (RemoveBlobRefsStep(p) /\ ~op[p].force
           /\ RefsPointingAt(refDB, op[p].d) # {})
          => /\ op'[p].res = "err:referenced"
             /\ blobDB' = blobDB
             /\ refDB' = refDB
             /\ files' = files]_vars

\* C3: in every state of every interleaving, the digest of every ref names an
\* existing BlobInfo.
C3_RefsNameBlobs ==
    \A r \in getAllRefs(refDB) : hasBlobInfo(blobDB, r.Digest)

\* a SetRef holds the exclusive lock of a digest and is about to write the ref
\* while a RemoveBlob of the same digest waits for that lock
C3_Witness ==
    \E p, q \in Procs :
        /\ p # q
        /\ pc[p] = "sr_write"
        /\ pc[q] = "rm_lock"
        /\ op[p].d = op[q].d

\* C4: the digest index of the ref bucket holds the entry (d, id) exactly when
\* the primary row of id has digest d, and the lookup by digest returns exactly
\* the ids whose ref points at d.
C4_RefIndexMatchesPrimary ==
    \A d \in FullDigests :
        /\ \A id \in IDs :
              (refDigestIDKey(d, id) \in DOMAIN refDB)
              <=> (hasRef(refDB, id) /\ getRef(refDB, id).Digest = d)
        /\ refIDsByDigest(refDB, d) = RefsPointingAt(refDB, d)

\* the steps that are allowed to change what GetRef(id) returns
SetRefStep(p, id) == pc[p] = "sr_write" /\ op[p].id = id /\ pc'[p] = "idle"

RemoveRefStep(p, id) ==
    /\ pc[p] = "idle"
    /\ budget' # budget
    /\ op'[p].name = "RemoveRef"
    /\ op'[p].id = id

ForcedRemoveBlobStep(p, d) == RemoveBlobRefsStep(p) /\ op[p].force /\ op[p].d = d

\* C5: once a ref id -> d is set, GetRef(id) returns d until a SetRef of id, a
\* RemoveRef of id or a forced RemoveBlob of d is carried out.
C5_RefStableUntilChanged ==
    [][\A id \in IDs :
          (hasRef(refDB, id) /\ getRef(refDB', id) # getRef(refDB, id))
          => \E p \in Procs :
                \/ SetRefStep(p, id)
                \/ RemoveRefStep(p, id)
                \/ ForcedRemoveBlobStep(p, getRef(refDB, id).Digest)]_vars

----------------------------------------------------------------------------
(* Properties of the blob files *)

\* C6: while a stream returned by ReadBlob(d) is open, the BlobInfo of d is
\* not removed and the file of d is not unlinked.
C6_OpenStreamKeepsBlob ==
    \A p \in Procs :
        pc[p] = "stream"
        => /\ hasBlobInfo(blobDB, op[p].d)
           /\ op[p].d \in DOMAIN files

\* C7 as claimed: when no operation is in progress, a blob file exists for a
\* digest exactly when a BlobInfo row exists for it.
C7_FileIffBlobInfo ==
    Quiescent
    => \A d \in FullDigests : hasBlobInfo(blobDB, d) <=> d \in DOMAIN files

\* C7 as amended: when no operation is in progress, every digest that has a
\* BlobInfo row has a blob file; a file without a BlobInfo row stays behind
\* after a WriteBlob whose transaction failed and after a RemoveBlob whose
\* unlink failed.
C7_BlobInfoHasFile ==
    Quiescent
    => \A d \in FullDigests : hasBlobInfo(blobDB, d) => d \in DOMAIN files

\* a RemoveBlob failed at its unlink and left the file of a removed blob,
\* while another blob is stored with both its row and its file
C7_Witness ==
    /\ Quiescent
    /\ \E p \in Procs :
          /\ LastOp(p, "RemoveBlob")
          /\ op[p].res = "ErrStaleData"
          /\ op[p].d \in DOMAIN files
          /\ ~hasBlobInfo(blobDB, op[p].d)
    /\ \E d \in FullDigests : hasBlobInfo(blobDB, d) /\ d \in DOMAIN files

\* C8: no state is left or can be observed in which a forced RemoveBlob has
\* removed the refs of a digest while the BlobInfo of the digest still exists.
C8_ForcedRemoveBlobAtomic ==
    \A p \in Procs :
        (p \in procs /\ op[p].name = "RemoveBlob" /\ op[p].force
         /\ op[p].referenced /\ pc[p] # "rm_refs"
         /\ RefsPointingAt(refDB, op[p].d) = {})
        => ~hasBlobInfo(blobDB, op[p].d)

\* C9: the bytes kept in the file of digest d, and the bytes of every stream
\* opened by ReadBlob(d), have digest d, whatever is written meanwhile.
C9_BytesMatchDigest ==
    /\ \A d \in DOMAIN files : DigestOf(S_sha256, files[d]) = d
    /\ \A p \in Procs : pc[p] = "stream" => DigestOf(S_sha256, op[p].c) = op[p].d

\* a stream of digest d is open while another WriteBlob of the same content
\* has replaced the file of d
C9_Witness ==
    \E p, q \in Procs :
        /\ pc[p] = "stream"
        /\ pc[q] = "wb_tx"
        /\ op[q].d = op[p].d

----------------------------------------------------------------------------
(* Properties of ResolveDigest *)

StoredDigests == {d \in ResolveDigests : hasBlobInfo(blobDB, d)}

IsHexString(s) == s # <<>> /\ \A i \in 1..Len(s) : s[i] \in HexDigits

IsClassString(s) == s # <<>> /\ \A i \in 1..Len(s) : s[i] \in DigestClass

\* ^[A-Za-z0-9_+.-]+-[A-Fa-f0-9]+$ with a known algorithm as first segment
WellFormed(s) ==
    /\ \E j \in 2..(Len(s) - 1) :
          /\ s[j] = "-"
          /\ IsClassString(SubSeq(s, 1, j - 1))
          /\ IsHexString(SubSeq(s, j + 1, Len(s)))
    /\ FirstPart(s, "-") \in algorithms

\* the hex characters that follow the algorithm and the hyphen
HexCount(s) == Len(s) - Len(FirstPart(s, "-")) - 1

\* length of the longest common prefix of two strings
CommonPrefixLen(s, t) ==
    CHOOSE n \in 0..Len(s) :
        /\ n <= Len(t)
        /\ SubSeq(s, 1, n) = SubSeq(t, 1, n)
        /\ (n < Len(s) /\ n < Len(t) => s[n+1] # t[n+1])

\* C10: a well-formed query with at least two hex characters resolves to the
\* only stored digest it is a prefix of, is not found when it is a prefix of
\* none, and is ambiguous when it is a prefix of several; a query longer than
\* the common prefix of every two stored digests is never ambiguous.
C10_ResolveDigestByPrefix ==
    LET q == ReplaceFirst(query, ":", "-")
        matches == {d \in StoredDigests : HasPrefix(d, q)}
    IN (query # <<>> /\ WellFormed(q) /\ HexCount(q) >= 2)
       => /\ Cardinality(matches) = 1
                => answer = [status |-> "ok", digest |-> CHOOSE d \in matches : TRUE]
          /\ Cardinality(matches) = 0 => answer.status = "notfound"
          /\ Cardinality(matches) >= 2 => answer.status = "ambiguous"
          /\ (\A d1, d2 \in StoredDigests :
                  d1 # d2 => Len(q) > CommonPrefixLen(d1, d2))
                => answer.status # "ambiguous"

\* a partial digest was resolved to the one digest it is a prefix of while
\* another stored digest shares its first hex character
C10_Witness ==
    /\ answer.status = "ok"
    /\ Len(query) < Len(answer.digest)
    /\ \E d \in StoredDigests :
          /\ d # answer.digest
          /\ CommonPrefixLen(d, answer.digest) > Len(S_sha256) + 1

-----------------------------------------------------------------------------
(* Properties of GetRef *)

\* C11: GetRef of an id that has no ref returns a RefNotFound error, and
\* GetRef returns a digest with no error exactly when the id has a ref, the
\* digest being the one of that ref.
C11_GetRefNotFound ==
    \A p \in Procs :
        LastOp(p, "GetRef")
        => IF hasRef(refDB, op[p].id)
           THEN op[p].res = "ok" /\ op[p].d = getRef(refDB, op[p].id).Digest
           ELSE op[p].res = "RefNotFound"

-----------------------------------------------------------------------------
(* common/distribution: the appc distribution and its comparable URI *)

S_cimd == <<"c","i","m","d">>
DistTypeAppc == <<"a","p","p","c">>
DistAppcVersion == 0

DecimalDigits == <<"0","1","2","3","4","5","6","7","8","9">>

\* fmt.Sprintf("%s:%s:v=%d:", DistScheme, distType, version)
DistBase(distType, version) ==
    S_cimd \o <<":">> \o distType \o <<":","v","=">>
           \o <<DecimalDigits[version + 1]>> \o <<":">>

\* app names and labels handed to the ACI registry
ACIName == <<"x","/","y">>
L_arch == <<"a","r","c","h">>
L_os == <<"o","s">>
ACILabels ==
    { [n \in {} |-> <<>>],
      [n \in {L_os} |-> <<"l">>],
      [n \in {L_arch, L_os} |-> IF n = L_os THEN <<"l">> ELSE <<"a","/","b">>] }

(* net/url, as far as distribution URIs use it *)

LowerLetters == {"a", "b", "c", "d", "e", "f", "g", "h", "i", "j", "k", "l", "m",
                 "n", "o", "p", "q", "r", "s", "t", "u", "v", "w", "x", "y", "z"}

NoURL == [err |-> "", Scheme |-> <<>>, Opaque |-> <<>>, Path |-> <<>>,
          RawQuery |-> <<>>]

\* getscheme: the scheme is what stands before the first ':' when only
\* letters, and after the first character digits, '+', '-' and '.', precede it
RECURSIVE getscheme(_, _)
getscheme(rawurl, i) ==
    IF i > Len(rawurl) THEN [err |-> "", scheme |-> <<>>, rest |-> rawurl]
    ELSE IF rawurl[i] \in LowerLetters THEN getscheme(rawurl, i + 1)
    ELSE IF rawurl[i] \in {"0","1","2","3","4","5","6","7","8","9","-","."}
    THEN IF i = 1 THEN [err |-> "", scheme |-> <<>>, rest |-> rawurl]
         ELSE getscheme(rawurl, i + 1)
    ELSE IF rawurl[i] = ":"
    THEN IF i = 1 THEN [err |-> "missing protocol scheme", scheme |-> <<>>,
                        rest |-> <<>>]
         ELSE [err |-> "", scheme |-> SubSeq(rawurl, 1, i - 1),
               rest |-> SubSeq(rawurl, i + 1, Len(rawurl))]
    ELSE [err |-> "", scheme |-> <<>>, rest |-> rawurl]

\* url.Parse of a string without fragment and without authority
urlParse(rawurl) ==
    LET g == getscheme(rawurl, 1)
        parts == SplitN2(g.rest, "?")
        rest == parts[1]
        rawQuery == IF Len(parts) = 2 THEN parts[2] ELSE <<>>
    IN IF g.err # "" THEN [NoURL EXCEPT !.err = g.err]
       ELSE IF rest # <<>> /\ Head(rest) = "/"
       THEN [NoURL EXCEPT !.Scheme = g.scheme, !.Path = rest, !.RawQuery = rawQuery]
       ELSE IF g.scheme # <<>>
       THEN [NoURL EXCEPT !.Scheme = g.scheme, !.Opaque = rest,
                          !.RawQuery = rawQuery]
       ELSE IF Contains(FirstPart(rest, "/"), ":")
       THEN [NoURL EXCEPT !.err = "first path segment in URL cannot contain colon"]
       ELSE [NoURL EXCEPT !.Path = rest, !.RawQuery = rawQuery]

\* URL.String
URLString(u) ==
    (IF u.Scheme # <<>> THEN u.Scheme \o <<":">> ELSE <<>>)
      \o (IF u.Opaque # <<>> THEN u.Opaque ELSE u.Path)
      \o (IF u.RawQuery # <<>> THEN <<"?">> \o u.RawQuery ELSE <<>>)

\* url.ParseQuery: the unescaped pairs in the order in which they stand
RECURSIVE ParseQueryParts(_)
ParseQueryParts(parts) ==
    IF parts = <<>> THEN <<>>
    ELSE LET kv == SplitN2(Head(parts), "=")
             pair == [k |-> QueryUnescape(kv[1]),
                      v |-> IF Len(kv) = 2 THEN QueryUnescape(kv[2]) ELSE <<>>]
         IN (IF Head(parts) = <<>> THEN <<>> ELSE <<pair>>)
              \o ParseQueryParts(Tail(parts))

ParseQuery(rawQuery) ==
    IF rawQuery = <<>> THEN <<>> ELSE ParseQueryParts(Split(rawQuery, "&"))

\* URL.Query(): key -> the values of the key in the order in which they stand
RECURSIVE ValuesOf(_, _)
ValuesOf(pairs, key) ==
    IF pairs = <<>> THEN <<>>
    ELSE (IF Head(pairs).k = key THEN <<Head(pairs).v>> ELSE <<>>)
           \o ValuesOf(Tail(pairs), key)

Query(u) ==
    LET pairs == ParseQuery(u.RawQuery)
    IN [key \in {pairs[i].k : i \in 1..Len(pairs)} |-> ValuesOf(pairs, key)]

(* common/distribution/utils.go *)

\* the "k=v" strings of the values of key k, the values query escaped
RECURSIVE QueryStrings(_, _)
QueryStrings(k, values) ==
    IF values = <<>> THEN <<>>
    ELSE <<k \o <<"=">> \o QueryEscape(Head(values))>>
           \o QueryStrings(k, Tail(values))

RECURSIVE SortedQueryStrings(_, _)
SortedQueryStrings(q, arKeys) ==
    IF arKeys = <<>> THEN <<>>
    ELSE QueryStrings(Head(arKeys), SortStrings(q[Head(arKeys)]))
           \o SortedQueryStrings(q, Tail(arKeys))

\* a sortQuery that writes the keys in the order of the range over the map
sortQuery_unsorted(u, order) ==
    LET q == Query(u)
    IN IF DOMAIN q = {} THEN u
       ELSE [u EXCEPT !.RawQuery = Join(SortedQueryStrings(q, order), <<"&">>)]

\* sortQuery: order is the order in which the range over u.Query() yields
\* the keys
sortQuery(u, order) ==
    LET q == Query(u)
    IN IF DOMAIN q = {} THEN u
       ELSE [u EXCEPT !.RawQuery =
                 Join(SortedQueryStrings(q, SortStrings(order)), <<"&">>)]

(* common/distribution/appc.go *)

\* the order in which a range over a map with these keys yields them, when
\* the result does not depend on it
SomeOrder(keys) == CHOOSE o \in RangeOrders(keys) : TRUE

\* NewAppcFromApp(app).ComparableURIString(); order is the order in which the
\* range over app.Labels yields the names
NewAppcFromAppIn(name, labels, order) ==
    LET queries == [i \in 1..Len(order) |->
                       order[i] \o <<"=">> \o QueryEscape(labels[order[i]])]
        rawuri == DistBase(DistTypeAppc, DistAppcVersion) \o name
                    \o (IF Len(order) > 0 THEN <<"?">> \o Join(queries, <<"&">>)
                        ELSE <<>>)
        u == urlParse(rawuri)
    IN URLString(sortQuery(u, SomeOrder(DOMAIN Query(u))))

NewAppcFromApp(name, labels) ==
    NewAppcFromAppIn(name, labels, SomeOrder(DOMAIN labels))

ACIRefIDs == {NewAppcFromApp(ACIName, l) : l \in ACILabels}

(* common/image/aci: ACIRegistry.GetACI *)

\* GetACI reads the ref of the appc distribution.  A nil ref is dereferenced
\* (the call panics); with a ref, both return statements give ACINotFoundError
GetACI(p, name, labels) ==
    LET refID == NewAppcFromApp(name, labels)
        ref == getRef(refDB, refID)
    IN /\ Call(p)
       /\ query' = [name |-> name, labels |-> labels]
       /\ IF ~hasRef(refDB, refID)
          THEN /\ answer' = [status |-> "panic", digest |-> <<>>]
               /\ Finish(p, [NoOp EXCEPT !.name = "GetACI", !.id = refID], "panic")
          ELSE /\ answer' = [status |-> "ACINotFound", digest |-> <<>>,
                             name |-> name, labels |-> labels]
               /\ Finish(p, [NoOp EXCEPT !.name = "GetACI", !.id = refID],
                         "ACINotFound")
       /\ UNCHANGED <<blobDB, refDB, files>>

\* a process that fills the store with images, names them by their appc
\* distribution and looks them up through the registry
NextACI ==
    \E p \in Procs :
        \/ \E c \in Contents : CallWriteBlob(p, c, MT_aci, NoBlobData)
        \/ WriteBlobLock(p)
        \/ WriteBlobImport(p)
        \/ WriteBlobTx(p)
        \/ \E id \in ACIRefIDs, q \in FullDigests : CallSetRef(p, id, q)
        \/ SetRefLock(p)
        \/ SetRefHasBlob(p)
        \/ SetRefWrite(p)
        \/ \E id \in ACIRefIDs : RemoveRef(p, id)
        \/ \E l \in ACILabels : GetACI(p, ACIName, l)

ACISpec == InitSeq /\ [][NextACI]_vars

\* C12: GetACI(name, labels) returns the digest of the ref of the appc
\* distribution built from name and labels, with no error, when that ref
\* exists, and an ACINotFound error carrying name and labels when it does not.
C12_GetACIReturnsDigest ==
    \A p \in Procs :
        LastOp(p, "GetACI")
        => IF hasRef(refDB, op[p].id)
           THEN answer = [status |-> "ok",
                          digest |-> getRef(refDB, op[p].id).Digest]
           ELSE answer = [status |-> "ACINotFound", digest |-> <<>>,
                          name |-> query.name, labels |-> query.labels]

-----------------------------------------------------------------------------
(* Store.WriteBlobData and Store.ReadBlobData *)

\* blobInfo.Data[dataType] of the BlobInfo row of digest: reading a nil map
\* gives nil
readBlobData(b, digest, dataType) ==
    LET bi == getBlobInfo(b, digest)
    IN IF bi.Data = NilMap THEN NilBytes
       ELSE IF dataType \in DOMAIN bi.Data THEN bi.Data[dataType]
       ELSE NilBytes

\* m[k] = v on a map that is not nil
MapSet(m, k, v) == [x \in DOMAIN m \cup {k} |-> IF x = k THEN v ELSE m[x]]

CallWriteBlobData(p, q, dataType, data) ==
    LET o == [NoOp EXCEPT !.name = "WriteBlobData", !.dt = dataType, !.data = data]
    IN IF dataType = <<>>
       THEN /\ Call(p)
            /\ Finish(p, o, "err:datatype")
            /\ UNCHANGED <<blobDB, refDB, files, resolveVars>>
       ELSE Resolve(p, o, q, "wd_lock")

WriteBlobDataLock(p) ==
    /\ pc[p] = "wd_lock"
    /\ CanLockExclusive(p, op[p].d)
    /\ locks' = Lock(p, op[p].d, "X")
    /\ pc' = [pc EXCEPT ![p] = "wd_tx"]
    /\ UNCHANGED <<blobDB, refDB, files, op, resolveVars, envVars>>

\* the transaction of WriteBlobData: a nil BlobInfo is dereferenced, and an
\* assignment to an entry of a nil map panics
WriteBlobDataTx(p) ==
    /\ pc[p] = "wd_tx"
    /\ LET o == op[p]
           blobInfo == getBlobInfo(blobDB, o.d)
       IN IF ~hasBlobInfo(blobDB, o.d) \/ blobInfo.Data = NilMap
          THEN /\ Finish(p, o, "panic")
               /\ blobDB' = blobDB
          ELSE /\ Finish(p, o, "ok")
               /\ blobDB' = writeBlobInfo(blobDB,
                      [blobInfo EXCEPT !.Data = MapSet(blobInfo.Data, o.dt, o.data)])
    /\ UNCHANGED <<refDB, files, resolveVars, envVars>>

CallReadBlobData(p, q, dataType) ==
    LET o == [NoOp EXCEPT !.name = "ReadBlobData", !.dt = dataType]
    IN IF dataType = <<>>
       THEN /\ Call(p)
            /\ Finish(p, o, "err:datatype")
            /\ UNCHANGED <<blobDB, refDB, files, resolveVars>>
       ELSE Resolve(p, o, q, "rd_lock")

ReadBlobDataLock(p) ==
    /\ pc[p] = "rd_lock"
    /\ CanLockShared(p, op[p].d)
    /\ locks' = Lock(p, op[p].d, "S")
    /\ pc' = [pc EXCEPT ![p] = "rd_get"]
    /\ UNCHANGED <<blobDB, refDB, files, op, resolveVars, envVars>>

ReadBlobDataGet(p) ==
    /\ pc[p] = "rd_get"
    /\ IF ~hasBlobInfo(blobDB, op[p].d)
       THEN Finish(p, op[p], "panic")
       ELSE Finish(p, [op[p] EXCEPT !.data = readBlobData(blobDB, op[p].d, op[p].dt)],
                   "ok")
    /\ UNCHANGED <<blobDB, refDB, files, resolveVars, envVars>>

\* getBlobInfosByMediaType: [status, infos].  Building the prefix panics on
\* a media type that is empty or contains '/', and so does an index entry
\* whose BlobInfo row is missing
getBlobInfosByMediaType(b, mediaType) ==
    IF blobInfoMediaTypeDigestKeyPanics(mediaType, <<>>)
    THEN [status |-> "panic", infos |-> {}]
    ELSE LET keys == Scan(b, blobInfoMediaTypeDigestKey(mediaType, <<>>))
         IN IF \E k \in keys : ~hasBlobInfo(b, PathBase(k))
            THEN [status |-> "panic", infos |-> {}]
            ELSE [status |-> "ok",
                  infos |-> {getBlobInfo(b, PathBase(k)) : k \in keys}]

GetBlobsInfosByMediaType(p, mediaType) ==
    LET r == getBlobInfosByMediaType(blobDB, mediaType)
    IN /\ Call(p)
       /\ query' = mediaType
       /\ answer' = r
       /\ Finish(p, [NoOp EXCEPT !.name = "GetBlobsInfosByMediaType",
                                 !.mt = mediaType], r.status)
       /\ UNCHANGED <<blobDB, refDB, files>>

\* a process that writes blobs with and without auxiliary data, writes and
\* reads auxiliary data of the blobs in the store, and lists the blobs of a
\* media type
NextData ==
    \E p \in Procs :
        \/ \E c \in Contents, mt \in MediaTypes, bd \in BlobDatas :
              CallWriteBlob(p, c, mt, bd)
        \/ \E mt \in MediaTypes : GetBlobsInfosByMediaType(p, mt)
        \/ WriteBlobLock(p)
        \/ WriteBlobImport(p)
        \/ WriteBlobTx(p)
        \/ \E q \in Queries, t \in DataTypes \cup {<<>>}, b \in Bytes :
              CallWriteBlobData(p, q, t, b)
        \/ WriteBlobDataLock(p)
        \/ WriteBlobDataTx(p)
        \/ \E q \in Queries, t \in DataTypes \cup {<<>>} : CallReadBlobData(p, q, t)
        \/ ReadBlobDataLock(p)
        \/ ReadBlobDataGet(p)

DataSpec == InitSeq /\ [][NextData]_vars

\* C13: a WriteBlob with auxiliary data succeeds (no I/O error occurs here),
\* and after it returned digest d, ReadBlobData(d, t) returns extraData[t] for
\* every data type t of extraData.
C13_WriteBlobStoresData ==
    \A p \in Procs :
        (LastOp(p, "WriteBlob") /\ op[p].res # "panic")
        => /\ op[p].res = "ok"
           /\ \A t \in DOMAIN op[p].bd :
                 readBlobData(blobDB, op[p].d, t) = op[p].bd[t]

\* the step of p that runs the transaction of WriteBlobData
WriteBlobDataStep(p) == pc[p] = "wd_tx" /\ pc'[p] # "wd_tx"

\* C14: WriteBlobData(d, t, b) on an existing blob d succeeds; afterwards
\* ReadBlobData(d, t) returns b and ReadBlobData(d, t') of every other data
\* type t' returns what it returned before.
C14_BlobDataKeyedByType ==
    [][\A p \in Procs :
          (WriteBlobDataStep(p) /\ hasBlobInfo(blobDB, op[p].d))
          => /\ op'[p].res = "ok"
             /\ readBlobData(blobDB', op[p].d, op[p].dt) = op[p].data
             /\ \A t \in DataTypes \ {op[p].dt} :
                   readBlobData(blobDB', op[p].d, t)
                       = readBlobData(blobDB, op[p].d, t)]_vars

\* the BlobInfo rows whose media type is mediaType
BlobInfosOfMediaType(mediaType) ==
    {getBlobInfo(blobDB, d) :
        d \in {x \in FullDigests : hasBlobInfo(blobDB, x)
                                   /\ getBlobInfo(blobDB, x).MediaType = mediaType}}

\* C15: the media type is an opaque string.  WriteBlob with any non-empty
\* media type, also one that contains '/', succeeds, returns the digest of
\* the content and records the media type; the lookup by media type accepts
\* the same media types and returns the blobs that have it.
C15_MediaTypeOpaque ==
    \A p \in Procs :
        /\ (LastOp(p, "WriteBlob") /\ op[p].mt # <<>> /\ op[p].bd = NoBlobData)
           => /\ op[p].res = "ok"
              /\ op[p].d = DigestOf(S_sha256, op[p].c)
              /\ getBlobInfo(blobDB, op[p].d).MediaType = op[p].mt
        /\ (LastOp(p, "GetBlobsInfosByMediaType") /\ op[p].mt # <<>>)
           => /\ op[p].res = "ok"
              /\ answer.infos = BlobInfosOfMediaType(op[p].mt)

-----------------------------------------------------------------------------
(* rkt image rm *)

\* what the loop of rmImages over the resolved digests makes of the error
\* that RemoveBlob(digest, true) returned
rmImagesOutcome(err) ==
    IF err # NilErr
    THEN IF err = ErrStaleData THEN "stale" ELSE "error"
    ELSE "removed"

\* C16: when only the unlink of the file fails, RemoveBlob has removed the
\* refs and the BlobInfo before it, the blob is logically removed (no
\* BlobInfo, HasBlob is false), and the error returned is recognised as
\* ErrStaleData by a caller that compares against ErrStaleData.
C16_StaleDataRecognised ==
    \A p \in Procs :
        (LastOp(p, "RemoveBlob") /\ op[p].res = "ErrStaleData")
        => /\ ~hasBlobInfo(blobDB, op[p].d)
           /\ RefsPointingAt(refDB, op[p].d) = {}
           /\ rmImagesOutcome(op[p].err) = "stale"

-----------------------------------------------------------------------------
(* store/treestore: info.go *)

S_image == <<"i","m","a","g","e">>
S_deps == <<"d","e","p","s">>

NilInfo == [ID |-> <<>>, ImageDigest |-> <<>>, Checksum |-> <<>>, Size |-> 0]

infoIDKey(id) == S_id \o Slash \o id

infoImageKey(image, id) == S_image \o Slash \o image \o Slash \o id

writeInfo(b, info) ==
    Put(Put(b, infoIDKey(info.ID), info),
        infoImageKey(info.ImageDigest, info.ID), NilInfo)

hasInfo(b, id) == infoIDKey(id) \in DOMAIN b

getInfo(b, id) == IF hasInfo(b, id) THEN b[infoIDKey(id)] ELSE NilInfo

\* a removeInfo that deletes the image index row and leaves the id row
removeInfo_indexOnly(b, id) ==
    IF ~hasInfo(b, id) THEN b
    ELSE Delete(b, infoImageKey(getInfo(b, id).ImageDigest, id))

removeInfo(b, id) ==
    IF ~hasInfo(b, id) THEN b
    ELSE Delete(Delete(b, infoIDKey(id)),
                infoImageKey(getInfo(b, id).ImageDigest, id))

(* store/treestore: the tree store *)

\* the images in the image store when trees are rendered
TreeImages == {DigestOf(S_sha512, c) : c \in Contents}

\* "deps-" and the hash of the digests of the image and its dependencies;
\* the images have no dependencies, and the hash, taken to be collision
\* free, is the hex part of the digest
calculateID(digest) ==
    S_deps \o Hyphen \o SubSeq(digest, Len(FirstPart(digest, "-")) + 2, Len(digest))

TreeIDs == {calculateID(d) : d \in TreeImages}

\* an IsRendered that answers true for every id
IsRendered_always(b, id) == TRUE

\* IsRendered looks at the info row only
IsRendered(b, id) == hasInfo(b, id)

\* the checksum of the tree of id: [err, sum].  The hash over the file infos
\* and contents is taken to be collision free: the sum is the content
checksum(dirs, id) ==
    IF id \notin DOMAIN dirs
    THEN [err |-> "error walking rootfs", sum |-> <<>>]
    ELSE [err |-> "", sum |-> <<dirs[id].image, dirs[id].state>>]

\* a check that is content with the info row and compares no checksum
check_infoOnly(b, dirs, id) ==
    IF ~hasInfo(b, id) THEN "err:notexist" ELSE "ok"

\* check: the result of comparing the checksum of the tree with the saved one
check(b, dirs, id) ==
    IF ~hasInfo(b, id) THEN "err:notexist"
    ELSE IF checksum(dirs, id).err # "" THEN "err:checksum"
    ELSE IF checksum(dirs, id).sum # getInfo(b, id).Checksum THEN "err:mismatch"
    ELSE "ok"

\* the stream whose sha512 digest is d
StreamOf(d) == CHOOSE c \in Contents : DigestOf(S_sha512, c) = d

\* the bucket "blobinfo" after a WriteBlob of every image of ds
RECURSIVE BlobInfosOf(_)
BlobInfosOf(ds) ==
    IF ds = {} THEN EmptyBucket
    ELSE LET d == CHOOSE x \in ds : TRUE
         IN writeBlobInfo(BlobInfosOf(ds \ {d}),
                          [Digest |-> d, MediaType |-> MT_aci,
                           Size |-> StreamOf(d) + 1, Data |-> NilMap])

\* an image store that holds the images, and an empty tree store
InitTree ==
    /\ blobDB = BlobInfosOf(TreeImages)
    /\ files = [d \in TreeImages |-> StreamOf(d)]
    /\ refDB = EmptyBucket
    /\ locks = {}
    /\ pc = [p \in Procs |-> "idle"]
    /\ op = [p \in Procs |-> NoOp]
    /\ query = <<>>
    /\ answer = [status |-> "", digest |-> <<>>]
    /\ treeDB = EmptyBucket
    /\ treeDirs = EmptyBucket
    /\ cache = EmptyBucket
    /\ procs = Procs
    /\ budget = MaxCalls

\* the id of the tree that the operation of p works on
TreeID(p) == op[p].id

(* Store.Render *)

\* ResolveKey and calculateID
CallRender(p, q, rebuild) ==
    LET r == ResolveDigest(blobDB, q)
        o == [NoOp EXCEPT !.name = "Render", !.rebuild = rebuild]
    IN /\ Call(p)
       /\ IF r.status = "ok"
          THEN /\ pc' = [pc EXCEPT ![p] = "tr_lock"]
               /\ op' = [op EXCEPT ![p] = [o EXCEPT !.d = r.digest,
                                                     !.id = calculateID(r.digest)]]
               /\ locks' = locks
          ELSE Finish(p, o, "err:resolve")
       /\ UNCHANGED <<blobDB, refDB, files, resolveVars>>

RenderLock(p) ==
    /\ pc[p] = "tr_lock"
    /\ CanLockExclusive(p, TreeID(p))
    /\ locks' = Lock(p, TreeID(p), "X")
    /\ pc' = [pc EXCEPT ![p] = "tr_check"]
    /\ UNCHANGED <<blobDB, refDB, files, op, resolveVars, envVars>>

\* without rebuild a tree that IsRendered is returned as it is; otherwise
\* remove(id) and render(id, digest) follow.  op[p].debris notes that the
\* call found a directory without an info row
RenderIsRendered(p) ==
    /\ pc[p] = "tr_check"
    /\ LET o == [op[p] EXCEPT !.debris = (TreeID(p) \in DOMAIN treeDirs
                                          /\ ~hasInfo(treeDB, TreeID(p)))]
       IN IF ~op[p].rebuild /\ IsRendered(treeDB, TreeID(p))
          THEN Finish(p, o, "ok")
          ELSE /\ pc' = [pc EXCEPT ![p] = "t_stat"]
               /\ op' = [op EXCEPT ![p] = o]
               /\ locks' = locks
    /\ UNCHANGED <<blobDB, refDB, files, resolveVars, envVars>>

\* remove(id) has returned nil: Render goes on with render, Remove returns
AfterRemove(p) ==
    IF op[p].name = "Render"
    THEN /\ pc' = [pc EXCEPT ![p] = "t_mkdir"]
         /\ UNCHANGED <<op, locks>>
    ELSE Finish(p, op[p], "ok")

\* a remove that takes every tree path to be absent
TreeRemoveStat_alwaysAbsent(p) ==
    /\ pc[p] = "t_stat"
    /\ AfterRemove(p)
    /\ UNCHANGED <<blobDB, refDB, files, resolveVars, envVars>>

\* remove: os.Stat of the tree path; nothing is done when it does not exist
TreeRemoveStat(p) ==
    /\ pc[p] = "t_stat"
    /\ IF TreeID(p) \notin DOMAIN treeDirs
       THEN AfterRemove(p)
       ELSE /\ pc' = [pc EXCEPT ![p] = "t_rminfo"]
            /\ UNCHANGED <<op, locks>>
    /\ UNCHANGED <<blobDB, refDB, files, resolveVars, envVars>>

\* a remove that skips the transaction and leaves the info row
TreeRemoveInfo_keepsInfo(p) ==
    /\ pc[p] = "t_rminfo"
    /\ pc' = [pc EXCEPT ![p] = "t_rmdir"]
    /\ UNCHANGED <<blobDB, refDB, files, op, locks, resolveVars, envVars>>

\* remove: the transaction that removes the info row
TreeRemoveInfo(p) ==
    /\ pc[p] = "t_rminfo"
    /\ treeDB' = removeInfo(treeDB, TreeID(p))
    /\ pc' = [pc EXCEPT ![p] = "t_rmdir"]
    /\ UNCHANGED <<blobDB, refDB, files, op, locks, resolveVars, procs, budget, cache,
                   treeDirs>>

\* remove: os.RemoveAll, which can fail and leave a part of the tree
TreeRemoveAll(p, fails) ==
    /\ pc[p] = "t_rmdir"
    /\ IF fails /\ TreeID(p) \in DOMAIN treeDirs
       THEN /\ treeDirs' = [treeDirs EXCEPT ![TreeID(p)].state = "partial"]
            /\ Finish(p, op[p], "err:io")
       ELSE /\ treeDirs' = Delete(treeDirs, TreeID(p))
            /\ AfterRemove(p)
    /\ UNCHANGED <<blobDB, refDB, files, resolveVars, procs, budget, cache, treeDB>>

\* render: the tree path must not exist; it is created
RenderMkdir(p) ==
    /\ pc[p] = "t_mkdir"
    /\ IF TreeID(p) \in DOMAIN treeDirs
       THEN /\ Finish(p, op[p], "err:exists")
            /\ treeDirs' = treeDirs
       ELSE /\ treeDirs' = Put(treeDirs, TreeID(p),
                               [image |-> op[p].d, state |-> "partial"])
            /\ pc' = [pc EXCEPT ![p] = "t_aci"]
            /\ UNCHANGED <<op, locks>>
    /\ UNCHANGED <<blobDB, refDB, files, resolveVars, procs, budget, cache, treeDB>>

\* render: RenderACIWithImageID extracts the image; it can fail on the way
RenderACI(p, fails) ==
    /\ pc[p] = "t_aci"
    /\ IF fails \/ op[p].d \notin DOMAIN files
       THEN /\ Finish(p, op[p], "err:io")
            /\ treeDirs' = treeDirs
       ELSE /\ treeDirs' = Put(treeDirs, TreeID(p),
                               [image |-> op[p].d, state |-> "rendered"])
            /\ pc' = [pc EXCEPT ![p] = "t_sum"]
            /\ UNCHANGED <<op, locks>>
    /\ UNCHANGED <<blobDB, refDB, files, resolveVars, procs, budget, cache, treeDB>>

\* render: the checksum of the tree that was just rendered
RenderChecksum(p) ==
    /\ pc[p] = "t_sum"
    /\ LET cs == checksum(treeDirs, TreeID(p))
       IN IF cs.err # ""
          THEN Finish(p, op[p], "err:io")
          ELSE /\ pc' = [pc EXCEPT ![p] = "t_info"]
               /\ op' = [op EXCEPT ![p].sum = cs.sum]
               /\ locks' = locks
    /\ UNCHANGED <<blobDB, refDB, files, resolveVars, envVars>>

\* render: after the sync, the transaction that writes the info row
RenderWriteInfo(p) ==
    /\ pc[p] = "t_info"
    /\ treeDB' = writeInfo(treeDB, [ID |-> TreeID(p), ImageDigest |-> op[p].d,
                                    Checksum |-> op[p].sum, Size |-> 1])
    /\ Finish(p, [op[p] EXCEPT !.rendered = TRUE], "ok")
    /\ UNCHANGED <<blobDB, refDB, files, resolveVars, procs, budget, cache, treeDirs>>

(* Store.Remove *)

\* no old tree store directory is set, so oldPathExists is false
CallTreeRemove(p, id) ==
    /\ Call(p)
    /\ pc' = [pc EXCEPT ![p] = "tm_lock"]
    /\ op' = [op EXCEPT ![p] = [NoOp EXCEPT !.name = "Remove", !.id = id]]
    /\ UNCHANGED <<blobDB, refDB, files, locks, resolveVars>>

TreeRemoveLock(p) ==
    /\ pc[p] = "tm_lock"
    /\ CanLockExclusive(p, TreeID(p))
    /\ locks' = Lock(p, TreeID(p), "X")
    /\ pc' = [pc EXCEPT ![p] = "t_stat"]
    /\ UNCHANGED <<blobDB, refDB, files, op, resolveVars, envVars>>

(* Store.Check *)

CallCheck(p, id) ==
    /\ Call(p)
    /\ pc' = [pc EXCEPT ![p] = "tc_lock"]
    /\ op' = [op EXCEPT ![p] = [NoOp EXCEPT !.name = "Check", !.id = id]]
    /\ UNCHANGED <<blobDB, refDB, files, locks, resolveVars>>

CheckLock(p) ==
    /\ pc[p] = "tc_lock"
    /\ CanLockShared(p, TreeID(p))
    /\ locks' = Lock(p, TreeID(p), "S")
    /\ pc' = [pc EXCEPT ![p] = "tc_check"]
    /\ UNCHANGED <<blobDB, refDB, files, op, resolveVars, envVars>>

\* a Check that drops the info row of a tree whose checksum does not match
CheckRun_dropsInfo(p) ==
    /\ pc[p] = "tc_check"
    /\ LET r == check(treeDB, treeDirs, TreeID(p))
       IN /\ Finish(p, op[p], r)
          /\ treeDB' = IF r = "ok" THEN treeDB
                        ELSE removeInfo(treeDB, TreeID(p))
    /\ UNCHANGED <<blobDB, refDB, files, resolveVars, procs, budget, cache, treeDirs>>

CheckRun(p) ==
    /\ pc[p] = "tc_check"
    /\ Finish(p, op[p], check(treeDB, treeDirs, TreeID(p)))
    /\ UNCHANGED <<blobDB, refDB, files, resolveVars, envVars>>

(* The environment of the tree store *)

\* a file of a rendered tree is changed from outside the store (the chmod
\* and the added file of TestTreeStore)
Corrupt(id) ==
    /\ id \in DOMAIN treeDirs
    /\ treeDirs[id].state = "rendered"
    /\ treeDirs' = [treeDirs EXCEPT ![id].state = "changed"]
    /\ UNCHANGED <<blobDB, refDB, files, locks, pc, op, resolveVars, procs,
                   budget, cache, treeDB>>

\* the positions of Render and Remove at which the exclusive lock is held
LockedTreePcs == {"tr_check", "t_stat", "t_rminfo", "t_rmdir", "t_mkdir",
                  "t_aci", "t_sum", "t_info"}

\* the process is interrupted while it holds the exclusive lock: the lock is
\* released with the process, the database and the directory stay as they are
Crash(p) ==
    /\ pc[p] \in LockedTreePcs
    /\ Finish(p, op[p], "crashed")
    /\ UNCHANGED <<blobDB, refDB, files, resolveVars, envVars>>

TreeStep(p) ==
    \/ \E q \in TreeImages, rebuild \in BOOLEAN : CallRender(p, q, rebuild)
    \/ RenderLock(p)
    \/ RenderIsRendered(p)
    \/ TreeRemoveStat(p)
    \/ TreeRemoveInfo(p)
    \/ \E fails \in BOOLEAN : TreeRemoveAll(p, fails)
    \/ RenderMkdir(p)
    \/ \E fails \in BOOLEAN : RenderACI(p, fails)
    \/ RenderChecksum(p)
    \/ RenderWriteInfo(p)
    \/ \E id \in TreeIDs : CallTreeRemove(p, id)
    \/ TreeRemoveLock(p)
    \/ \E id \in TreeIDs : CallCheck(p, id)
    \/ CheckLock(p)
    \/ CheckRun(p)

\* processes that render, check and remove trees
NextTree ==
    \/ \E p \in Procs : TreeStep(p)
    \/ \E id \in TreeIDs : Corrupt(id)

TreeSpec == InitTree /\ [][NextTree]_vars

\* the same processes, any of which can be interrupted
NextTreeCrash ==
    \/ \E p \in Procs : TreeStep(p)
    \/ \E id \in TreeIDs : Corrupt(id)
    \/ \E p \in Procs : Crash(p)

TreeCrashSpec == InitTree /\ [][NextTreeCrash]_vars

-----------------------------------------------------------------------------
(* Properties of the tree store *)

TreeExists(id) == id \in DOMAIN treeDirs

\* the step of p that decides whether Render has anything to do
RenderCheckStep(p) ==
    pc[p] = "tr_check" /\ pc'[p] # "tr_check" /\ op'[p].res # "crashed"

\* the step of p in which a call of name returns
ReturnStep(p, name) ==
    op[p].name = name /\ pc[p] # "idle" /\ pc'[p] = "idle" /\ op'[p].res # "crashed"

\* C17: Render without rebuild returns the id without rendering exactly
\* when the TreeInfo row and the tree directory both exist; when either is
\* missing it goes on to remove what is there and to render; and whenever
\* Render returns successfully the row and the directory both exist.
C17_RenderReturnsRenderedTree ==
    [][\A p \in Procs :
          /\ (RenderCheckStep(p) /\ ~op[p].rebuild)
             => IF hasInfo(treeDB, TreeID(p)) /\ TreeExists(TreeID(p))
                THEN pc'[p] = "idle" /\ op'[p].res = "ok"
                ELSE pc'[p] = "t_stat"
          /\ (ReturnStep(p, "Render") /\ op'[p].res = "ok")
             => /\ hasInfo(treeDB', TreeID(p))
                /\ TreeID(p) \in DOMAIN treeDirs']_vars

\* a Render without rebuild has returned the id of a rendered tree without
\* rendering it again
C17_Witness ==
    \E p \in Procs :
        /\ LastOp(p, "Render")
        /\ op[p].res = "ok"
        /\ ~op[p].rebuild
        /\ ~op[p].rendered
        /\ hasInfo(treeDB, op[p].id)
        /\ TreeExists(op[p].id)

\* a Render or a Remove of id has been started and has not returned
TreeOpInProgress(id) ==
    \E p \in Procs :
        pc[p] # "idle" /\ op[p].name \in {"Render", "Remove"} /\ op[p].id = id

\* C18 as stated: while no Render or Remove of id is in progress, the tree
\* directory of id exists if and only if the TreeInfo row of id exists.
C18_DirIffTreeInfo ==
    \A id \in TreeIDs :
        ~TreeOpInProgress(id) => (TreeExists(id) <=> hasInfo(treeDB, id))

\* C18: while no Render or Remove of id is in progress, a TreeInfo row of id
\* has its tree directory.
C18_TreeInfoHasDir ==
    \A id \in TreeIDs :
        ~TreeOpInProgress(id) => (hasInfo(treeDB, id) => TreeExists(id))

\* one tree is rendered, and a Render that returned an error has left the
\* directory of another
C18_Witness ==
    \E id1, id2 \in TreeIDs :
        /\ ~TreeOpInProgress(id1) /\ ~TreeOpInProgress(id2)
        /\ hasInfo(treeDB, id1) /\ TreeExists(id1)
        /\ ~hasInfo(treeDB, id2) /\ TreeExists(id2)
        /\ \E p \in Procs : LastOp(p, "Render") /\ op[p].id = id2
                            /\ op[p].res = "err:io"

\* C19: a Render without rebuild that finds the directory of an interrupted
\* Render and no TreeInfo fails only on an I/O error, never on the directory
\* being in the way; when it returns successfully the TreeInfo exists and
\* Check succeeds, unless the tree was changed from outside meanwhile; and a
\* Render that holds the lock is never blocked: its next step can be taken.
C19_RenderCleansDebris ==
    /\ [][\A p \in Procs :
             (ReturnStep(p, "Render") /\ op[p].debris /\ ~op[p].rebuild)
             => /\ op'[p].res \in {"ok", "err:io"}
                /\ op'[p].res = "ok"
                   => /\ hasInfo(treeDB', TreeID(p))
                      /\ \/ check(treeDB', treeDirs', TreeID(p)) = "ok"
                         \/ treeDirs'[TreeID(p)].state = "changed"]_vars
    /\ [](\A p \in Procs :
             (op[p].name = "Render" /\ pc[p] \in LockedTreePcs)
             => ENABLED TreeStep(p))

\* a Render was interrupted, and the next Render of the same id has removed
\* what it left, has rendered the tree, and Check succeeds
C19_Witness ==
    \E p1, p2 \in Procs :
        /\ LastOp(p1, "Render") /\ op[p1].res = "crashed"
        /\ LastOp(p2, "Render") /\ op[p2].id = op[p1].id
        /\ op[p2].debris /\ ~op[p2].rebuild /\ op[p2].rendered
        /\ op[p2].res = "ok"
        /\ check(treeDB, treeDirs, op[p2].id) = "ok"

\* the steps of a call of Check by p
CheckStep(p) == op'[p].name = "Check" /\ pc'[p] # pc[p]

\* C20: no step of Check changes the TreeInfo rows, the stored checksum
\* among them, or the tree directories, whatever Check reports.
C20_CheckChangesNothing ==
    [][\A p \in Procs :
          CheckStep(p) => /\ treeDB' = treeDB
                          /\ treeDirs' = treeDirs]_vars

\* Check has reported a mismatch for a tree that was changed from outside
C20_Witness ==
    \E p \in Procs :
        /\ LastOp(p, "Check")
        /\ op[p].res = "err:mismatch"
        /\ hasInfo(treeDB, op[p].id)
        /\ TreeExists(op[p].id)

\* the step in which the tree of id is changed from outside the store
CorruptStep(id) ==
    /\ id \in DOMAIN treeDirs
    /\ treeDirs[id].state = "rendered"
    /\ id \in DOMAIN treeDirs'
    /\ treeDirs'[id].state = "changed"

\* C21: Check returns what check finds; a Render that rendered the tree
\* returns with a tree that passes check, unless the tree was changed from
\* outside meanwhile; a change from outside of a tree that passes check makes
\* check report a mismatch; and the mismatch stays until the info row is
\* removed by a Render with rebuild or by a Remove of the id.
C21_CheckFollowsTree ==
    [][/\ \A p \in Procs :
            /\ ReturnStep(p, "Check")
               => op'[p].res = check(treeDB, treeDirs, TreeID(p))
            /\ (ReturnStep(p, "Render") /\ op'[p].res = "ok" /\ op'[p].rendered)
               => \/ check(treeDB', treeDirs', TreeID(p)) = "ok"
                  \/ treeDirs'[TreeID(p)].state = "changed"
       /\ \A id \in TreeIDs :
            /\ (CorruptStep(id) /\ check(treeDB, treeDirs, id) = "ok")
               => check(treeDB', treeDirs', id) = "err:mismatch"
            /\ (/\ check(treeDB, treeDirs, id) = "err:mismatch"
                /\ check(treeDB', treeDirs', id) # "err:mismatch")
               => \E p \in Procs :
                      /\ pc[p] = "t_rminfo" /\ pc'[p] = "t_rmdir"
                      /\ TreeID(p) = id
                      /\ op[p].name = "Remove" \/ op[p].rebuild]_vars

\* Check has reported a mismatch for a tree, and a Render with rebuild has
\* rendered it again so that it passes check
C21_Witness ==
    \E p1, p2 \in Procs :
        /\ LastOp(p1, "Check") /\ op[p1].res = "err:mismatch"
        /\ LastOp(p2, "Render") /\ op[p2].id = op[p1].id
        /\ op[p2].rebuild /\ op[p2].rendered /\ op[p2].res = "ok"
        /\ check(treeDB, treeDirs, op[p2].id) = "ok"

\* a step of a call of Remove by p, the call step left out
RemoveStep(p) ==
    op[p].name = "Remove" /\ pc[p] # "idle" /\ pc'[p] # pc[p]

-----------------------------------------------------------------------------
(* store/treestore/checksum.go: the checksum of a rendered tree *)

\* what a step that only calls a function of the store leaves alone
callVars == <<blobDB, refDB, files, locks, pc, op, envVars>>

\* the entries of the walked tree, in the lexical order of filepath.Walk
P_a == <<"a">>
P_b == <<"b">>
WalkOrder == <<P_a, P_b>>
TreePaths == {WalkOrder[i] : i \in 1..Len(WalkOrder)}

X_a == <<"u", ".", "a">>
X_b == <<"u", ".", "b">>
\* the orders in which a range over the map hdr.Xattrs can yield its keys
XattrOrders == {<<X_a, X_b>>, <<X_b, X_a>>}
XattrValues == [k \in {X_a, X_b} |-> IF k = X_a THEN <<"b">> ELSE <<"a">>]

FileTypes == {"regular", "symlink", "socket", "chardev"}
FileModes == {"0755", "0600"}
FileOwners == {0, 1}
OwnerNames == {<<"a">>, <<"b">>}
FileTimes == {0, 1}
FileContents == {<<"a">>, <<"a", "b">>}

\* a file as lstat, readlink, listxattr and a read of it show it
DefaultFile ==
    [type |-> "regular", mode |-> "0755", uid |-> 0, gid |-> 0,
     uname |-> <<"a">>, gname |-> <<"a">>,
     mtime |-> 0, atime |-> 0, ctime |-> 0,
     target |-> <<"b">>, rdevmajor |-> 1, rdevminor |-> 3,
     content |-> <<"a">>, xattrs |-> XattrValues, xorder |-> <<X_a, X_b>>]

\* tar.FileInfoHeader followed by hdr.Name = relpath and tarheader.Populate
FileInfoHeader(relpath, f) ==
    [Name |-> relpath, Mode |-> f.mode, Uid |-> f.uid, Gid |-> f.gid,
     Uname |-> f.uname, Gname |-> f.gname,
     Size |-> IF f.type = "regular" THEN Len(f.content) ELSE 0,
     Typeflag |-> f.type,
     Linkname |-> IF f.type = "symlink" THEN f.target ELSE <<>>,
     Devmajor |-> IF f.type = "chardev" THEN f.rdevmajor ELSE 0,
     Devminor |-> IF f.type = "chardev" THEN f.rdevminor ELSE 0,
     ModTime |-> f.mtime, AccessTime |-> f.atime, ChangeTime |-> f.ctime,
     Xattrs |-> f.xattrs]

\* a fileInfoFromHeader that keeps the keys in the order of the map range
fileInfoFromHeader_unsorted(hdr, keys) ==
    [Name |-> hdr.Name, Mode |-> hdr.Mode, Uid |-> hdr.Uid, Gid |-> hdr.Gid,
     Size |-> hdr.Size, Typeflag |-> hdr.Typeflag, Linkname |-> hdr.Linkname,
     Devmajor |-> hdr.Devmajor, Devminor |-> hdr.Devminor,
     Xattrs |-> [i \in 1..Len(keys) |->
                    [Name |-> keys[i], Value |-> hdr.Xattrs[keys[i]]]]]

\* fileInfoFromHeader: keys is the order in which the range over hdr.Xattrs
\* yields the keys
fileInfoFromHeader(hdr, keys) ==
    LET sorted == SortStrings(keys)
    IN [Name |-> hdr.Name, Mode |-> hdr.Mode, Uid |-> hdr.Uid, Gid |-> hdr.Gid,
        Size |-> hdr.Size, Typeflag |-> hdr.Typeflag, Linkname |-> hdr.Linkname,
        Devmajor |-> hdr.Devmajor, Devminor |-> hdr.Devminor,
        Xattrs |-> [i \in 1..Len(sorted) |->
                       [Name |-> sorted[i], Value |-> hdr.Xattrs[sorted[i]]]]]

\* imageHashWriter.AddFile: what is written to the hash for one entry; r is
\* the content of a regular file and NilBytes for r == nil
AddFile(hdr, keys, r) ==
    IF r = NilBytes THEN <<fileInfoFromHeader(hdr, keys)>>
    ELSE <<fileInfoFromHeader(hdr, keys), r>>

\* the walk function of buildWalker for one entry
buildWalker(relpath, f) ==
    IF f.type = "socket" THEN <<>>
    ELSE AddFile(FileInfoHeader(relpath, f), f.xorder,
                 IF f.type = "regular" THEN f.content ELSE NilBytes)

\* filepath.Walk over the entries from the i-th on
RECURSIVE Walk(_, _)
Walk(tree, i) ==
    IF i > Len(WalkOrder) THEN <<>>
    ELSE buildWalker(WalkOrder[i], tree[WalkOrder[i]]) \o Walk(tree, i + 1)

\* hashString: the prefix and the sum; sha256 is taken to be collision free,
\* so the sum is what was written to the hash
hashString(written) == <<S_sha256 \o Hyphen, written>>

\* Store.checksum of a tree with these entries
treeChecksum(tree) == hashString(Walk(tree, 1))

InitChecksum ==
    /\ blobDB = EmptyBucket
    /\ refDB = EmptyBucket
    /\ files = EmptyBucket
    /\ locks = {}
    /\ pc = [p \in Procs |-> "idle"]
    /\ op = [p \in Procs |-> NoOp]
    /\ procs = {}
    /\ budget = 0
    /\ treeDB = EmptyBucket
    /\ treeDirs = EmptyBucket
    /\ cache = EmptyBucket
    /\ query = [path \in TreePaths |-> DefaultFile]
    /\ answer = treeChecksum(query)

\* the tree becomes tree, and its checksum is taken again
ChangeTree(tree) ==
    /\ query' = tree
    /\ answer' = treeChecksum(tree)
    /\ UNCHANGED callVars

\* os.Chtimes and what it does to the change time
Chtimes(path, time) ==
    ChangeTree([query EXCEPT ![path].mtime = time, ![path].atime = time,
                             ![path].ctime = time])

\* the names of the owner and the group change in the user database
RenameOwner(path, name) ==
    ChangeTree([query EXCEPT ![path].uname = name, ![path].gname = name])

\* the range over the xattrs of path yields the keys in another order
ReorderXattrs(path, order) ==
    ChangeTree([query EXCEPT ![path].xorder = order])

Chmod(path, mode) == ChangeTree([query EXCEPT ![path].mode = mode])

Chown(path, owner) ==
    ChangeTree([query EXCEPT ![path].uid = owner, ![path].gid = owner])

WriteFile(path, content) ==
    /\ query[path].type = "regular"
    /\ ChangeTree([query EXCEPT ![path].content = content])

\* the entry is replaced by one of another type
Replace(path, type) == ChangeTree([query EXCEPT ![path].type = type])

NextChecksum ==
    \E path \in TreePaths :
        \/ \E time \in FileTimes : Chtimes(path, time)
        \/ \E name \in OwnerNames : RenameOwner(path, name)
        \/ \E order \in XattrOrders : ReorderXattrs(path, order)
        \/ \E mode \in FileModes : Chmod(path, mode)
        \/ \E owner \in FileOwners : Chown(path, owner)
        \/ \E content \in FileContents : WriteFile(path, content)
        \/ \E type \in FileTypes : Replace(path, type)

ChecksumSpec == InitChecksum /\ [][NextChecksum]_vars

\* what the checksum is to depend on, for one entry; a socket has none
HashedPart(relpath, f) ==
    IF f.type = "socket" THEN <<>>
    ELSE [path |-> relpath, type |-> f.type, mode |-> f.mode,
          uid |-> f.uid, gid |-> f.gid,
          size |-> IF f.type = "regular" THEN Len(f.content) ELSE 0,
          link |-> IF f.type = "symlink" THEN f.target ELSE <<>>,
          dev |-> IF f.type = "chardev" THEN <<f.rdevmajor, f.rdevminor>>
                  ELSE <<>>,
          xattrs |-> f.xattrs,
          content |-> IF f.type = "regular" THEN f.content ELSE <<>>]

HashedParts(tree) == [path \in TreePaths |-> HashedPart(path, tree[path])]

\* C22: the checksum of a tree stays the same as long as the path, type,
\* permission bits, numeric ids, size, link target, device numbers, xattrs
\* and regular-file content of every entry that is no socket stay the same:
\* times, owner names, the order of the xattrs and sockets have no part in it.
C22_ChecksumDependsOnlyOn ==
    [][(HashedParts(query') = HashedParts(query)) => (answer' = answer)]_vars

\* the times, the owner names and the xattr order of a regular file differ
\* from those at the start, the other entry is a socket, and the checksum is
\* the one of the tree with the first entry alone
C22_Witness ==
    /\ query[P_a].type = "regular"
    /\ query[P_a].mtime # DefaultFile.mtime
    /\ query[P_a].uname # DefaultFile.uname
    /\ query[P_a].xorder # DefaultFile.xorder
    /\ query[P_b].type = "socket"
    /\ answer = hashString(buildWalker(P_a, [DefaultFile EXCEPT !.xorder = <<X_b, X_a>>]))

-----------------------------------------------------------------------------
(* store/manifestcache/aci.go: the cache of image manifests *)

\* manifestFromImage: [err, imj].  Of every three streams the first is an ACI
\* with a manifest, the second an archive without one, and the third an
\* archive whose manifest entry is no JSON
manifestFromImage(c) ==
    IF c % 3 = 0
    THEN [err |-> "", imj |-> <<"{", DecimalDigits[c + 1], "}">>]
    ELSE IF c % 3 = 1
    THEN [err |-> "missing manifest", imj |-> <<>>]
    ELSE [err |-> "", imj |-> <<"{", DecimalDigits[c + 1]>>]

\* json.Unmarshal(imj, &im) returns no error
Unmarshal(imj) ==
    Len(imj) >= 2 /\ Head(imj) = "{" /\ imj[Len(imj)] = "}"

\* a GetManifestJSON that finds an undecodable entry and leaves it in place
GetManifestJSON_keepsEntry(p, q) ==
    LET r == ResolveDigest(blobDB, q)
        d == r.digest
        o == [NoOp EXCEPT !.name = "GetManifestJSON", !.d = d]
    IN /\ CallCache(p)
       /\ IF r.status # "ok"
          THEN /\ Finish(p, o, IF r.status = "panic" THEN "panic" ELSE "err:resolve")
               /\ cache' = cache
          ELSE IF d \in DOMAIN cache
          THEN IF Unmarshal(cache[d])
               THEN /\ Finish(p, [o EXCEPT !.cached = TRUE, !.data = cache[d]],
                           "ok")
                    /\ cache' = cache
               ELSE /\ Finish(p, [o EXCEPT !.cached = TRUE], "err:unmarshal")
                    /\ cache' = cache
          ELSE IF d \notin DOMAIN files
          THEN /\ Finish(p, o, "panic")
               /\ cache' = cache
          ELSE LET m == manifestFromImage(files[d])
               IN IF m.err # ""
                  THEN /\ Finish(p, o, "err:extract")
                       /\ cache' = cache
                  ELSE IF ~Unmarshal(m.imj)
                  THEN /\ Finish(p, o, "err:unmarshal")
                       /\ cache' = cache
                  ELSE /\ Finish(p, [o EXCEPT !.data = m.imj], "ok")
                       /\ cache' = Put(cache, d, m.imj)
       /\ UNCHANGED <<blobDB, refDB, files, resolveVars>>

\* a GetManifestJSON that writes the entry before it decodes the manifest
GetManifestJSON_cachesFirst(p, q) ==
    LET r == ResolveDigest(blobDB, q)
        d == r.digest
        o == [NoOp EXCEPT !.name = "GetManifestJSON", !.d = d]
    IN /\ CallCache(p)
       /\ IF r.status # "ok"
          THEN /\ Finish(p, o, IF r.status = "panic" THEN "panic" ELSE "err:resolve")
               /\ cache' = cache
          ELSE IF d \in DOMAIN cache
          THEN IF Unmarshal(cache[d])
               THEN /\ Finish(p, [o EXCEPT !.cached = TRUE, !.data = cache[d]],
                           "ok")
                    /\ cache' = cache
               ELSE /\ Finish(p, [o EXCEPT !.cached = TRUE], "err:unmarshal")
                    /\ cache' = Delete(cache, d)
          ELSE IF d \notin DOMAIN files
          THEN /\ Finish(p, o, "panic")
               /\ cache' = cache
          ELSE LET m == manifestFromImage(files[d])
               IN IF m.err # ""
                  THEN /\ Finish(p, o, "err:extract")
                       /\ cache' = cache
                  ELSE IF ~Unmarshal(m.imj)
                  THEN /\ Finish(p, o, "err:unmarshal")
                       /\ cache' = Put(cache, d, m.imj)
                  ELSE /\ Finish(p, [o EXCEPT !.data = m.imj], "ok")
                       /\ cache' = Put(cache, d, m.imj)
       /\ UNCHANGED <<blobDB, refDB, files, resolveVars>>

\* GetManifestJSON, run by a process that has the store for itself.  The
\* error of ReadBlob is dropped: without a stream manifestFromImage reads
\* from a nil reader
GetManifestJSON(p, q) ==
    LET r == ResolveDigest(blobDB, q)
        d == r.digest
        o == [NoOp EXCEPT !.name = "GetManifestJSON", !.d = d]
    IN /\ CallCache(p)
       /\ IF r.status # "ok"
          THEN /\ Finish(p, o, IF r.status = "panic" THEN "panic" ELSE "err:resolve")
               /\ cache' = cache
          ELSE IF d \in DOMAIN cache
          THEN IF Unmarshal(cache[d])
               THEN /\ Finish(p, [o EXCEPT !.cached = TRUE, !.data = cache[d]],
                           "ok")
                    /\ cache' = cache
               ELSE /\ Finish(p, [o EXCEPT !.cached = TRUE], "err:unmarshal")
                    /\ cache' = Delete(cache, d)
          ELSE IF d \notin DOMAIN files
          THEN /\ Finish(p, o, "panic")
               /\ cache' = cache
          ELSE LET m == manifestFromImage(files[d])
               IN IF m.err # ""
                  THEN /\ Finish(p, o, "err:extract")
                       /\ cache' = cache
                  ELSE IF ~Unmarshal(m.imj)
                  THEN /\ Finish(p, o, "err:unmarshal")
                       /\ cache' = cache
                  ELSE /\ Finish(p, [o EXCEPT !.data = m.imj], "ok")
                       /\ cache' = Put(cache, d, m.imj)
       /\ UNCHANGED <<blobDB, refDB, files, resolveVars>>

\* ACIManifestCache.GC
GC(p) ==
    /\ Call(p)
    /\ Finish(p, [NoOp EXCEPT !.name = "GC"], "ok")
    /\ UNCHANGED <<blobDB, refDB, files, resolveVars, cache>>

\* the file of a cache entry loses its first byte (the "corrupted?" of
\* GetManifestJSON)
CorruptEntry(d) ==
    /\ d \in DOMAIN cache
    /\ Unmarshal(cache[d])
    /\ cache' = [cache EXCEPT ![d] = Tail(cache[d])]
    /\ UNCHANGED <<blobDB, refDB, files, locks, pc, op, resolveVars, procs,
                   budget, treeVars>>

\* one process writes and removes images and reads their manifests through
\* the cache
NextCache ==
    \/ \E p \in Procs :
        \/ \E c \in Contents : CallWriteBlob(p, c, MT_aci, NoBlobData)
        \/ WriteBlobLock(p)
        \/ WriteBlobImport(p)
        \/ WriteBlobTx(p)
        \/ \E q \in FullDigests : CallRemoveBlob(p, q, TRUE)
        \/ RemoveBlobLock(p)
        \/ RemoveBlobRefs(p)
        \/ RemoveBlobInfo(p)
        \/ RemoveBlobErase(p, FALSE)
        \/ \E q \in FullDigests : GetManifestJSON(p, q)
        \/ GC(p)
    \/ \E d \in FullDigests : CorruptEntry(d)

CacheSpec == InitSeq /\ [][NextCache]_vars

\* the call of name that p has just made has returned
CallStep(p, name) ==
    op'[p].name = name /\ budget' # budget /\ pc[p] = "idle" /\ pc'[p] = "idle"

\* C24: when GC returns, every entry of the cache is for a digest that has a
\* blob in the store.
C24_GCDropsRemovedBlobs ==
    [][\A p \in Procs :
          CallStep(p, "GC")
          => \A d \in DOMAIN cache' : hasBlobInfo(blobDB', d)]_vars

\* C25: GetManifestJSON of a digest of the store whose cache entry cannot be
\* decoded removes the entry and returns the parse error, and the call for
\* the same digest that follows succeeds and leaves a decodable entry.
C25_EvictsUndecodableEntry ==
    [][\A p \in Procs :
          \A d \in FullDigests :
              (CallStep(p, "GetManifestJSON") /\ op'[p].d = d)
              => /\ (d \in DOMAIN cache /\ ~Unmarshal(cache[d]))
                    => /\ op'[p].res = "err:unmarshal"
                       /\ d \notin DOMAIN cache'
                 /\ (/\ LastOp(p, "GetManifestJSON") /\ op[p].d = d
                     /\ op[p].cached /\ op[p].res = "err:unmarshal")
                    => /\ op'[p].res = "ok"
                       /\ ~op'[p].cached
                       /\ d \in DOMAIN cache'
                       /\ Unmarshal(cache'[d])]_vars

\* GetManifestJSON has found an entry that could not be decoded and has
\* removed it, the blob is in the store, and another call can follow
C25_Witness ==
    \E p \in Procs :
        /\ LastOp(p, "GetManifestJSON")
        /\ op[p].cached /\ op[p].res = "err:unmarshal"
        /\ op[p].d \notin DOMAIN cache
        /\ hasBlobInfo(blobDB, op[p].d)
        /\ budget > 0

----------------------------------------------------------------------------
(* Distribution URIs: common/distribution *)

DistTypeDocker == <<"d","o","c","k","e","r">>
DistTypeACIArchive == <<"a","c","i","-","a","r","c","h","i","v","e">>

Digits == {"0","1","2","3","4","5","6","7","8","9"}

\* strings.SplitN(s, ":", 3)
SplitN3(s, sep) ==
    LET a == SplitN2(s, sep)
    IN IF Len(a) < 2 THEN a ELSE <<a[1]>> \o SplitN2(a[2], sep)

\* strings.TrimPrefix
TrimPrefix(s, prefix) ==
    IF Len(s) >= Len(prefix) /\ SubSeq(s, 1, Len(prefix)) = prefix
    THEN SubSeq(s, Len(prefix) + 1, Len(s))
    ELSE s

RECURSIVE TrimLeadingZeros(_)
TrimLeadingZeros(s) ==
    IF Len(s) > 1 /\ Head(s) = "0" THEN TrimLeadingZeros(Tail(s)) ELSE s

\* the largest uint32, in decimal
MaxUint32 == <<"4","2","9","4","9","6","7","2","9","5">>

\* strconv.ParseUint(s, 10, 32) succeeds: s is a non-empty string of decimal
\* digits whose value fits in 32 bits
ParseUintOK(s) ==
    /\ s # <<>>
    /\ \A i \in 1..Len(s) : s[i] \in Digits
    /\ LET t == TrimLeadingZeros(s)
       IN \/ Len(t) < Len(MaxUint32)
          \/ Len(t) = Len(MaxUint32) /\ ~StrLess(MaxUint32, t)

NoDistParts == [err |-> "", DistType |-> <<>>, Version |-> <<>>,
                DistString |-> <<>>]

\* parseDist: the dist type, version and remaining part of a distribution URI
parseDist(u) ==
    LET parts == SplitN3(u.Opaque, ":")
        version == TrimPrefix(parts[2], <<"v","=">>)
    IN IF u.Scheme # S_cimd THEN [NoDistParts EXCEPT !.err = "unsupported scheme"]
       ELSE IF Len(parts) < 3
       THEN [NoDistParts EXCEPT !.err = "malformed distribution uri"]
       ELSE IF ~ParseUintOK(version)
       THEN [NoDistParts EXCEPT !.err = "malformed distribution version"]
       ELSE [NoDistParts EXCEPT !.DistType = parts[1],
                                !.Version = TrimLeadingZeros(version),
                                !.DistString = parts[3]]

(* github.com/appc/spec: discovery.NewAppFromString *)

\* types.NewACIdentifier: ^[a-z0-9]+([-._~/][a-z0-9]+)*$
ValidACIdentifier(s) ==
    /\ s # <<>>
    /\ \A i \in 1..Len(s) :
          \/ s[i] \in LowerLetters \cup Digits
          \/ /\ s[i] \in {"-", ".", "_", "/"}
             /\ i > 1 /\ i < Len(s)
             /\ s[i + 1] \in LowerLetters \cup Digits

\* checkColon: a colon may appear only right after the app name
checkColon(app) ==
    LET firstComma == IndexOf(app, ",")
        firstColon == IndexOf(app, ":")
    IN ~(firstColon > firstComma /\ firstComma > 0)

\* common.MakeQueryString: the "k=v" parts between commas, the values escaped
RECURSIVE EscapedParts(_)
EscapedParts(parts) ==
    IF parts = <<>> THEN <<>>
    ELSE LET p == SplitN2(Head(parts), "=")
         IN <<p[1] \o <<"=">> \o QueryEscape(p[2])>> \o EscapedParts(Tail(parts))

NoApp == [err |-> "", Name |-> <<>>, Labels |-> <<>>]

\* discovery.NewAppFromString
NewAppFromString(app) ==
    LET c == SplitN2(app, ":")
        named == <<"n","a","m","e","=">>
                   \o (IF Len(c) = 2
                       THEN c[1] \o <<",","v","e","r","s","i","o","n","=">> \o c[2]
                       ELSE app)
        parts == Split(named, ",")
        v == Query([NoURL EXCEPT !.RawQuery = Join(EscapedParts(parts), <<"&">>)])
        S_name == <<"n","a","m","e">>
        labels == [k \in DOMAIN v \ {S_name} |-> v[k][1]]
    IN IF ~checkColon(app)
       THEN [NoApp EXCEPT !.err = "malformed app string"]
       ELSE IF \E i \in 1..Len(parts) : ~Contains(parts[i], "=")
       THEN [NoApp EXCEPT !.err = "label without a value"]
       ELSE IF \E k \in DOMAIN v : Len(v[k]) > 1
       THEN [NoApp EXCEPT !.err = "label with multiple values"]
       ELSE IF \E k \in DOMAIN labels : ~ValidACIdentifier(k)
       THEN [NoApp EXCEPT !.err = "invalid label name"]
       ELSE IF ~ValidACIdentifier(v[S_name][1])
       THEN [NoApp EXCEPT !.err = "invalid app name"]
       ELSE [NoApp EXCEPT !.Name = v[S_name][1], !.Labels = labels]

(* common/distribution/appc.go: NewAppc *)

RECURSIVE AppendLabels(_, _, _)
AppendLabels(appcStr, q, order) ==
    IF order = <<>> THEN appcStr
    ELSE AppendLabels(appcStr \o <<",">> \o Head(order) \o <<"=">>
                        \o q[Head(order)][1], q, Tail(order))

NoDist == [err |-> "", uri |-> <<>>]

\* NewAppc(rawuri): the error, or the ComparableURIString of the distribution;
\* order is the order in which the range over u.Query() yields the keys
NewAppc(rawuri, order) ==
    LET u == urlParse(rawuri)
        dp == parseDist(u)
        app == NewAppFromString(AppendLabels(dp.DistString, Query(u), order))
    IN IF u.err # "" THEN [NoDist EXCEPT !.err = "cannot parse URI"]
       ELSE IF dp.err # "" THEN [NoDist EXCEPT !.err = "cannot parse URI"]
       ELSE IF dp.DistType # DistTypeAppc THEN [NoDist EXCEPT !.err = "wrong scheme"]
       ELSE IF app.err # "" THEN [NoDist EXCEPT !.err = "wrong appc image string"]
       ELSE [NoDist EXCEPT !.uri = NewAppcFromApp(app.Name, app.Labels)]

(* Appc distributions built from apps and from their canonical strings *)

L_b == <<"b">>
AppLabelNames == {L_arch, L_os, L_b}
AppLabelValues == {<<"a","/","b">>, <<"a",":","b">>, <<"a",",","b","=","c">>}

\* the label maps of the apps handed to NewAppcFromApp
AppLabels ==
    UNION {[names -> AppLabelValues] : names \in SUBSET AppLabelNames}

InitAppc ==
    /\ InitStore
    /\ procs = {}
    /\ budget = 0

\* a caller builds the distribution of app (ACIName, labels); order is the
\* order in which the range over the labels yields them
CallNewAppcFromApp(labels, order) ==
    /\ query' = [name |-> ACIName, labels |-> labels, order |-> order]
    /\ answer' = [uri |-> NewAppcFromAppIn(ACIName, labels, order),
                  again |-> NoDist, called |-> FALSE]
    /\ UNCHANGED callVars

\* a caller builds a distribution from the canonical string it was given
CallNewAppc ==
    /\ query # <<>>
    /\ ~answer.called
    /\ \E order \in RangeOrders(DOMAIN Query(urlParse(answer.uri))) :
          answer' = [answer EXCEPT !.again = NewAppc(answer.uri, order),
                                   !.called = TRUE]
    /\ UNCHANGED <<query, callVars>>

NextAppc ==
    \/ \E labels \in AppLabels :
          \E order \in RangeOrders(DOMAIN labels) :
              CallNewAppcFromApp(labels, order)
    \/ CallNewAppc

AppcSpec == InitAppc /\ [][NextAppc]_vars

\* C26: the canonical string of an appc distribution is the same for every
\* order in which the labels are supplied, and a distribution built from a
\* canonical string has that canonical string.
C26_CanonicalAppc ==
    query # <<>>
    => /\ \A order \in RangeOrders(DOMAIN query.labels) :
             NewAppcFromAppIn(query.name, query.labels, order) = answer.uri
       /\ answer.called
          => answer.again = [NoDist EXCEPT !.uri = answer.uri]

\* the half of C26 about the order of the labels
C26_OrderIndependent ==
    query # <<>>
    => \A order \in RangeOrders(DOMAIN query.labels) :
          NewAppcFromAppIn(query.name, query.labels, order) = answer.uri

----------------------------------------------------------------------------
(* Docker distributions: common/distribution/docker.go, helpers.go *)

DistDockerVersion == 0
defaultIndexURL == <<"r","e","g","i","s","t","r","y","-","1",".",
                     "d","o","c","k","e","r",".","i","o">>
defaultTag == <<"l","a","t","e","s","t">>
defaultRepoPrefix == <<"l","i","b","r","a","r","y","/">>

NoDockerURL == [err |-> "", IndexURL |-> <<>>, ImageName |-> <<>>,
                Tag |-> <<>>, Digest |-> <<>>]

\* the reference name[:tag][@digest] taken apart: a tag follows the last
\* ':' that stands after the last '/'
ReferenceDigest(arg) ==
    IF Contains(arg, "@") THEN SplitN2(arg, "@")[2] ELSE <<>>
ReferenceNamed(arg) == SplitN2(arg, "@")[1]
ReferenceTagged(named) == LastIndexOf(named, ":") > LastIndexOf(named, "/")
ReferenceName(named) ==
    IF ReferenceTagged(named)
    THEN SubSeq(named, 1, LastIndexOf(named, ":") - 1)
    ELSE named
ReferenceTag(named) ==
    IF ReferenceTagged(named)
    THEN SubSeq(named, LastIndexOf(named, ":") + 1, Len(named))
    ELSE <<>>

\* the part of the name before the first '/' is the registry when it holds a
\* '.' or a ':' or is "localhost"
HasIndex(name) ==
    /\ Contains(name, "/")
    /\ \/ Contains(FirstPart(name, "/"), ".")
       \/ Contains(FirstPart(name, "/"), ":")
       \/ FirstPart(name, "/") = <<"l","o","c","a","l","h","o","s","t">>

\* SplitReposName: the registry, the default one when the name has none, and
\* the image name, with the "library/" prefix when it has no '/' and the
\* registry is the default one
IndexName(name) ==
    IF HasIndex(name) THEN FirstPart(name, "/") ELSE defaultIndexURL
RemoteName(name) ==
    IF HasIndex(name) THEN SubSeq(name, IndexOf(name, "/") + 1, Len(name))
    ELSE name
ImageName(name) ==
    IF IndexName(name) = defaultIndexURL /\ ~Contains(RemoteName(name), "/")
    THEN defaultRepoPrefix \o RemoteName(name)
    ELSE RemoteName(name)

\* docker2aci's ParseDockerURL
ParseDockerURL(arg) ==
    IF \/ ReferenceName(ReferenceNamed(arg)) = <<>>
       \/ RemoteName(ReferenceName(ReferenceNamed(arg))) = <<>>
       \/ Contains(arg, "@") /\ ReferenceDigest(arg) = <<>>
       \/ ReferenceTagged(ReferenceNamed(arg))
            /\ ReferenceTag(ReferenceNamed(arg)) = <<>>
    THEN [NoDockerURL EXCEPT !.err = "invalid reference format"]
    ELSE [NoDockerURL EXCEPT
             !.IndexURL = IndexName(ReferenceName(ReferenceNamed(arg))),
             !.ImageName = ImageName(ReferenceName(ReferenceNamed(arg))),
             !.Tag = IF ReferenceDigest(arg) # <<>> THEN <<>>
                     ELSE IF ReferenceTagged(ReferenceNamed(arg))
                     THEN ReferenceTag(ReferenceNamed(arg))
                     ELSE defaultTag,
             !.Digest = ReferenceDigest(arg)]

\* path.Join of two clean elements
PathJoin(a, b) ==
    IF a = <<>> THEN b ELSE IF b = <<>> THEN a ELSE a \o Slash \o b

NoString == [err |-> "", s |-> <<>>]

\* the name that SimpleDockerString writes for the parsed docker string p
SimpleName(p) ==
    IF p.IndexURL # defaultIndexURL THEN PathJoin(p.IndexURL, p.ImageName)
    ELSE IF HasPrefix(p.ImageName, defaultRepoPrefix)
    THEN TrimPrefix(p.ImageName, defaultRepoPrefix)
    ELSE p.ImageName

SimpleSuffix(p) ==
    IF p.Digest # <<>> THEN <<"@">> \o p.Digest
    ELSE IF p.Tag # defaultTag THEN <<":">> \o p.Tag
    ELSE <<>>

\* SimpleDockerString
SimpleDockerString(ds) ==
    IF ParseDockerURL(ds).err # ""
    THEN [NoString EXCEPT !.err = "bad docker string"]
    ELSE [NoString EXCEPT !.s = SimpleName(ParseDockerURL(ds))
                                  \o SimpleSuffix(ParseDockerURL(ds))]

FullSuffix(p) ==
    IF p.Digest # <<>> THEN <<"@">> \o p.Digest ELSE <<":">> \o p.Tag

\* FullDockerString
FullDockerString(ds) ==
    IF ParseDockerURL(ds).err # ""
    THEN [NoString EXCEPT !.err = "bad docker string"]
    ELSE [NoString EXCEPT
             !.s = PathJoin(ParseDockerURL(ds).IndexURL,
                            ParseDockerURL(ds).ImageName)
                     \o FullSuffix(ParseDockerURL(ds))]

\* NewDocker(rawuri): the error, or the docker string of the distribution
NewDocker(rawuri) ==
    LET u == urlParse(rawuri)
        dp == parseDist(u)
    IN IF u.err # "" THEN [NoString EXCEPT !.err = "cannot parse URI"]
       ELSE IF dp.err # "" THEN [NoString EXCEPT !.err = "cannot parse URI"]
       ELSE IF dp.DistType # DistTypeDocker
       THEN [NoString EXCEPT !.err = "wrong scheme"]
       ELSE IF ParseDockerURL(dp.DistString).err # ""
       THEN [NoString EXCEPT !.err = "bad docker string"]
       ELSE [NoString EXCEPT !.s = dp.DistString]

NewDockerFromDockerString(ds) ==
    NewDocker(DistBase(DistTypeDocker, DistDockerVersion) \o ds)

\* Docker.ComparableURIString of the distribution with docker string ds
ComparableURIString(ds) ==
    DistBase(DistTypeDocker, DistDockerVersion) \o FullDockerString(ds).s

\* Equals of the docker distributions with docker strings ds1 and ds2
Equals(ds1, ds2) == ComparableURIString(ds1) = ComparableURIString(ds2)

(* Docker strings handed to the package *)

S_b == <<"b">>
DockerRegistries == {<<>>, defaultIndexURL, <<"r",".","i","o",":","4">>}
DockerNames == {S_b, <<"r","/","b">>, defaultRepoPrefix \o <<"r","/","b">>}
DockerSuffixes == {<<>>, <<":">> \o defaultTag, <<":","1">>,
                   <<"@">> \o S_sha256 \o <<":","a","b">>}
DockerStrings ==
    {PathJoin(r, n) \o s : r \in DockerRegistries, n \in DockerNames,
                           s \in DockerSuffixes}

\* full forms to compare the docker strings with
DockerFullStrings ==
    {PathJoin(defaultIndexURL, defaultRepoPrefix \o S_b) \o <<":">> \o defaultTag,
     PathJoin(defaultIndexURL, <<"r","/","b">>) \o <<":","1">>,
     <<"r",".","i","o",":","4","/","b","@">> \o S_sha256 \o <<":","a","b">>}

NoDockerAnswer == [name |-> "", equal |-> FALSE, res |-> NoString]

InitDocker == InitAppc

\* a caller builds the distributions of two docker strings and compares them
CallEquals(ds1, ds2) ==
    /\ NewDockerFromDockerString(ds1).err = ""
    /\ NewDockerFromDockerString(ds2).err = ""
    /\ query' = <<ds1, ds2>>
    /\ answer' = [NoDockerAnswer EXCEPT
                     !.name = "Equals",
                     !.equal = Equals(NewDockerFromDockerString(ds1).s,
                                      NewDockerFromDockerString(ds2).s)]
    /\ UNCHANGED callVars

\* a caller asks for the simple form of a docker string
CallSimpleDockerString(ds) ==
    /\ query' = <<ds>>
    /\ answer' = [NoDockerAnswer EXCEPT !.name = "SimpleDockerString",
                                        !.res = SimpleDockerString(ds)]
    /\ UNCHANGED callVars

\* the caller expands the simple form it was given
CallFullDockerString ==
    /\ query # <<>>
    /\ answer.name = "SimpleDockerString"
    /\ answer.res.err = ""
    /\ answer' = [NoDockerAnswer EXCEPT !.name = "FullDockerString",
                                        !.res = FullDockerString(answer.res.s)]
    /\ UNCHANGED <<query, callVars>>

NextDocker ==
    \/ \E ds1 \in DockerStrings, ds2 \in DockerFullStrings :
          CallEquals(ds1, ds2)
    \/ \E ds \in DockerStrings : CallSimpleDockerString(ds)
    \/ CallFullDockerString

DockerSpec == InitDocker /\ [][NextDocker]_vars

\* C27: two docker strings with the same full form give distributions that
\* compare equal, and the full form of the simple form of a docker string is
\* the full form of the docker string.
C27_DockerCanonical ==
    query # <<>>
    => /\ (/\ answer.name = "Equals"
           /\ FullDockerString(query[1]) = FullDockerString(query[2]))
          => answer.equal
       /\ answer.name = "FullDockerString"
          => answer.res = FullDockerString(query[1])

\* the half of C27 about the comparison
C27_SameFullFormEqual ==
    (/\ query # <<>>
     /\ answer.name = "Equals"
     /\ FullDockerString(query[1]) = FullDockerString(query[2]))
    => answer.equal

----------------------------------------------------------------------------
(* Distributions from URIs: dist.go NewDistribution, New and Parse *)

DistACIArchiveVersion == 0

\* NewACIArchive(rawuri): the error, or the ComparableURIString
NewACIArchive(rawuri) ==
    LET u == urlParse(rawuri)
        dp == parseDist(u)
        tu == urlParse(QueryUnescape(dp.DistString))
    IN IF u.err # "" THEN [NoDist EXCEPT !.err = "cannot parse URI"]
       ELSE IF dp.err # "" THEN [NoDist EXCEPT !.err = "cannot parse URI"]
       ELSE IF dp.DistType # DistTypeACIArchive
       THEN [NoDist EXCEPT !.err = "wrong scheme"]
       ELSE IF tu.err # ""
       THEN [NoDist EXCEPT !.err = "wrong archive transport url"]
       ELSE [NoDist EXCEPT !.uri =
                URLString(sortQuery(u, SomeOrder(DOMAIN Query(u))))]

\* the distribution types that the init functions register
distributions == {DistTypeAppc, DistTypeACIArchive, DistTypeDocker}

\* the error of the constructor of distribution type t applied to rawuri
Construct(t, rawuri) ==
    CASE t = DistTypeAppc ->
           NewAppc(rawuri, SomeOrder(DOMAIN Query(urlParse(rawuri)))).err
      [] t = DistTypeACIArchive -> NewACIArchive(rawuri).err
      [] t = DistTypeDocker -> NewDocker(rawuri).err

\* what a call gives its caller: a distribution of a type, an error, or a
\* panic
NoOutcome == [res |-> "", type |-> <<>>, err |-> ""]
Dispatched(t, rawuri) ==
    IF Construct(t, rawuri) = ""
    THEN [NoOutcome EXCEPT !.res = "dist", !.type = t]
    ELSE [NoOutcome EXCEPT !.res = "error", !.type = t,
                           !.err = Construct(t, rawuri)]
Rejected(err) == [NoOutcome EXCEPT !.res = "error", !.err = err]

\* New(u)
New(u) ==
    LET dp == parseDist(u)
    IN IF dp.err # "" THEN Rejected("malformed distribution uri")
       ELSE IF u.Scheme # S_cimd THEN Rejected("malformed distribution uri")
       ELSE IF dp.DistType \notin distributions
       THEN Rejected("unknown distribution type")
       ELSE Dispatched(dp.DistType, URLString(u))

\* Parse(rawuri)
Parse(rawuri) ==
    LET u == urlParse(rawuri)
    IN IF u.err # "" THEN Rejected("cannot parse uri") ELSE New(u)

\* NewDistribution(rawuri): the error of the parts is not read, and the
\* parts are nil when there is one
NewDistribution(rawuri) ==
    LET u == urlParse(rawuri)
        dp == parseDist(u)
    IN IF u.err # "" THEN Rejected("cannot parse uri")
       ELSE IF u.Scheme # S_cimd THEN Rejected("malformed distribution uri")
       ELSE IF dp.err # "" THEN [NoOutcome EXCEPT !.res = "panic"]
       ELSE IF dp.DistType \notin distributions
       THEN Rejected("unsupported distribution type")
       ELSE Dispatched(dp.DistType, rawuri)

(* URIs handed to the constructors *)

URISchemes == {<<>>, S_cimd, <<"h","t","t","p">>}
URITypes == {<<>>, DistTypeAppc, DistTypeACIArchive, DistTypeDocker,
             <<"f","o","o">>}
URIVersions == {<<>>, <<"v","=","0">>, <<"v","=","x">>,
                <<"v","=">> \o MaxUint32,
                <<"v","=","4","2","9","4","9","6","7","2","9","6">>}
URIBodies == {<<>>, <<"x","/","y">>}

RECURSIVE NonEmpty(_)
NonEmpty(parts) ==
    IF parts = <<>> THEN <<>>
    ELSE (IF Head(parts) = <<>> THEN <<>> ELSE <<Head(parts)>>)
           \o NonEmpty(Tail(parts))

RawURIs ==
    {Join(NonEmpty(<<s, t, v, b>>), <<":">>) :
        s \in URISchemes, t \in URITypes, v \in URIVersions, b \in URIBodies}

InitDist == InitAppc

CallNewDistribution(rawuri) ==
    /\ query' = rawuri
    /\ answer' = [name |-> "NewDistribution", out |-> NewDistribution(rawuri)]
    /\ UNCHANGED callVars

CallParse(rawuri) ==
    /\ query' = rawuri
    /\ answer' = [name |-> "Parse", out |-> Parse(rawuri)]
    /\ UNCHANGED callVars

NextDist ==
    \/ \E rawuri \in RawURIs : CallNewDistribution(rawuri)
    \/ \E rawuri \in RawURIs : CallParse(rawuri)

DistSpec == InitDist /\ [][NextDist]_vars

\* what the URI of the last call is, read off the string: its scheme, the
\* parts of its body, its version, its type
URIScheme(rawuri) == FirstPart(rawuri, ":")
URIParts(rawuri) ==
    SplitN3(SubSeq(rawuri, Len(URIScheme(rawuri)) + 2, Len(rawuri)), ":")
WellFormedURI(rawuri) ==
    /\ Contains(rawuri, ":")
    /\ URIScheme(rawuri) = S_cimd
    /\ Len(URIParts(rawuri)) = 3
    /\ ParseUintOK(TrimPrefix(URIParts(rawuri)[2], <<"v","=">>))
    /\ URIParts(rawuri)[1] \in distributions

\* C28: a call that constructs a distribution from a URI returns a
\* distribution or an error, never panics; a URI whose scheme is not cimd,
\* whose body has fewer than three parts, whose version is no uint32 or whose
\* type is not registered gives an error, and any other URI gives what the
\* constructor of its type gives.
C28_NewReturnsDistOrError ==
    query # <<>>
    => /\ answer.out.res \in {"dist", "error"}
       /\ ~WellFormedURI(query) => answer.out.res = "error"
       /\ WellFormedURI(query)
          => answer.out = Dispatched(URIParts(query)[1], query)

\* the part of C28 that holds of Parse and New
C28_ParseReturnsDistOrError ==
    (query # <<>> /\ answer.name = "Parse")
    => /\ answer.out.res \in {"dist", "error"}
       /\ ~WellFormedURI(query) => answer.out.res = "error"
       /\ WellFormedURI(query)
          => answer.out = Dispatched(URIParts(query)[1], query)

----------------------------------------------------------------------------
(* Digest strings handed to ParseDigest *)

DigestHeads == {<<>>, S_sha256, S_sha512, S_md5, <<"/">> \o S_sha256}
DigestSeparators == {<<>>, <<"-">>, <<":">>}
DigestTails == {<<>>, <<"0","0">>, <<"0","A">>, <<"0","g">>, <<"0","0","/">>,
                <<"0","-","0">>, <<"0",":","0">>, <<"g","-","0">>}
DigestStrings ==
    {h \o s \o t : h \in DigestHeads, s \in DigestSeparators, t \in DigestTails}

InitDigest == InitAppc

\* a caller parses a digest string
CallParseDigest(ds) ==
    /\ query' = [ds |-> ds]
    /\ answer' = ParseDigest(ds)
    /\ UNCHANGED callVars

NextDigest == \E ds \in DigestStrings : CallParseDigest(ds)

DigestSpec == InitDigest /\ [][NextDigest]_vars

\* the whole of s matches ^[A-Za-z0-9_+.-]+-[A-Fa-f0-9]+$
MatchesWhole(s) ==
    \E j \in 2..(Len(s) - 1) :
        /\ s[j] = "-"
        /\ \A i \in 1..(j - 1) : s[i] \in DigestClass
        /\ \A i \in (j + 1)..Len(s) : s[i] \in HexDigits

\* C29: ParseDigest(s) succeeds only if s, with its first ':' replaced by
\* '-', matches the expression as a whole and its first segment is a known
\* algorithm, and then returns that string and that algorithm; every other
\* input fails.
C29_ParseDigestAccepts ==
    query # <<>>
    => LET ds == ReplaceFirst(query.ds, ":", "-")
           ok == MatchesWhole(ds) /\ FirstPart(ds, "-") \in algorithms
       IN /\ ok => answer = [err |-> "", digest |-> ds,
                             alg |-> FirstPart(ds, "-")]
          /\ ~ok => answer.err # ""

\* what C29 says of the strings that match as a whole
C29_WellFormedAccepted ==
    query # <<>>
    => LET ds == ReplaceFirst(query.ds, ":", "-")
       IN (MatchesWhole(ds) /\ FirstPart(ds, "-") \in algorithms)
          => answer = [err |-> "", digest |-> ds, alg |-> FirstPart(ds, "-")]

----------------------------------------------------------------------------
(* rkt image rm and rkt image gc: the exit status *)

\* rmImages(s, images): removeErr is what RemoveBlob(digest, true) returns
\* for the digests of this call.  The result is the error and the digests
\* that were logically removed
rmImages(b, images, removeErr) ==
    LET resolved == [i \in 1..Len(images) |-> ResolveDigest(b, images[i])]
        imageMap == {resolved[i].digest :
                        i \in {j \in 1..Len(images) : resolved[j].status = "ok"}}
        unresolved == Cardinality({i \in 1..Len(images) :
                                      resolved[i].status # "ok"})
        outcome == rmImagesOutcome(removeErr)
        done == IF outcome = "error" THEN 0 ELSE Cardinality(imageMap)
        errors == unresolved + Cardinality(imageMap) - done
        staleErrors == IF outcome = "stale" THEN Cardinality(imageMap) ELSE 0
    IN [err |-> (errors + staleErrors) > 0,
        removed |-> IF removeErr = NilErr \/ Contains(removeErr, ErrStaleData[1])
                    THEN imageMap ELSE {}]

\* the elements of a set of strings in some order
RECURSIVE SeqOfSet(_)
SeqOfSet(S) ==
    IF S = {} THEN <<>>
    ELSE LET x == CHOOSE y \in S : TRUE IN <<x>> \o SeqOfSet(S \ {x})

RECURSIVE removeBlobInfos(_, _)
removeBlobInfos(b, digests) ==
    IF digests = {} THEN b
    ELSE LET d == CHOOSE x \in digests : TRUE
         IN removeBlobInfos(removeBlobInfo(b, d), digests \ {d})

\* runRmImage: the exit status
runRmImage(b, args, newStoreErr, removeErr) ==
    IF Len(args) < 1 THEN 1
    ELSE IF newStoreErr THEN 1
    ELSE IF rmImages(b, args, removeErr).err THEN 1
    ELSE 0

\* gcStore: the images past the grace period are removed
gcStore(b, aciinfosErr, imagesToRemove, removeErr) ==
    IF aciinfosErr THEN TRUE ELSE rmImages(b, imagesToRemove, removeErr).err

\* runGCImage: the exit status.  The return after a failed newTreeStore
\* names no value, and the named result exit is still zero
runGCImage(b, e, imagesToRemove, removeErr) ==
    IF e.newStore THEN 1
    ELSE IF e.newTreeStore THEN 0
    ELSE IF e.gcTreeStore THEN 1
    ELSE IF gcStore(b, e.aciinfos, imagesToRemove, removeErr) THEN 1
    ELSE 0

(* The commands run against a store *)

CLIContents == {0, 1}
CLIArgs == {DigestOf(S_sha256, 0), DigestOf(S_sha256, 1),
            S_md5 \o Hyphen \o <<"0","0">>}
CLIArgLists == {<<>>} \cup {<<a>> : a \in CLIArgs}
                 \cup {<<a1, a2>> : a1 \in CLIArgs, a2 \in CLIArgs}
RemoveErrs == {NilErr, Wrap(ErrStaleData, ErrErase), ErrErase}
GCErrs == [newStore : BOOLEAN, newTreeStore : BOOLEAN, gcTreeStore : BOOLEAN,
           aciinfos : BOOLEAN]

\* some call of the command on the store or on the tree store returned an
\* error
RmFailed(b, args, newStoreErr, removeErr) ==
    /\ Len(args) >= 1
    /\ \/ newStoreErr
       \/ \E i \in 1..Len(args) : ResolveDigest(b, args[i]).status # "ok"
       \/ /\ \E i \in 1..Len(args) : ResolveDigest(b, args[i]).status = "ok"
          /\ removeErr # NilErr

GCFailed(b, e, images, removeErr) ==
    \/ e.newStore
    \/ e.newTreeStore
    \/ e.gcTreeStore
    \/ e.aciinfos
    \/ images # <<>> /\ removeErr # NilErr

InitCLI == InitAppc

\* rkt image rm args
CallRunRmImage(args, newStoreErr, removeErr) ==
    /\ query' = [cmd |-> "rm", args |-> args, removeErr |-> removeErr,
                 errs |-> [newStore |-> newStoreErr],
                 failed |-> RmFailed(blobDB, args, newStoreErr, removeErr)]
    /\ answer' = [exit |-> runRmImage(blobDB, args, newStoreErr, removeErr)]
    /\ blobDB' = IF Len(args) < 1 \/ newStoreErr THEN blobDB
                 ELSE removeBlobInfos(blobDB,
                                      rmImages(blobDB, args, removeErr).removed)
    /\ UNCHANGED <<refDB, files, locks, pc, op, envVars>>

\* rkt image gc; the images past the grace period are all or none of the
\* images of the store
CallRunGCImage(e, all, removeErr) ==
    LET images == IF all
                  THEN SeqOfSet({d \in ResolveDigests : hasBlobInfo(blobDB, d)})
                  ELSE <<>>
        ran == ~e.newStore /\ ~e.newTreeStore /\ ~e.gcTreeStore /\ ~e.aciinfos
    IN /\ query' = [cmd |-> "gc", args |-> images, removeErr |-> removeErr,
                    errs |-> e,
                    failed |-> GCFailed(blobDB, e, images, removeErr)]
       /\ answer' = [exit |-> runGCImage(blobDB, e, images, removeErr)]
       /\ blobDB' = IF ran
                    THEN removeBlobInfos(blobDB,
                             rmImages(blobDB, images, removeErr).removed)
                    ELSE blobDB
       /\ UNCHANGED <<refDB, files, locks, pc, op, envVars>>

NextCLI ==
    \/ \E c \in CLIContents : CommitBlob(S_sha256, c)
    \/ \E args \in CLIArgLists, newStoreErr \in BOOLEAN, removeErr \in RemoveErrs :
          CallRunRmImage(args, newStoreErr, removeErr)
    \/ \E e \in GCErrs, all \in BOOLEAN, removeErr \in RemoveErrs :
          CallRunGCImage(e, all, removeErr)

CLISpec == InitCLI /\ [][NextCLI]_vars

\* C30: image rm and image gc exit with status 1 when opening or operating
\* on the image store or the tree store returned an error, and with status 0
\* only when no error occurred.
C30_ExitStatus ==
    query # <<>>
    => /\ answer.exit \in {0, 1}
       /\ query.failed => answer.exit = 1

\* what C30 says of image rm
C30_RmExitStatus ==
    (query # <<>> /\ query.cmd = "rm")
    => /\ answer.exit \in {0, 1}
       /\ query.failed => answer.exit = 1

----------------------------------------------------------------------------
(* The tree id of an image with dependencies: calculateID *)

NumDepImages == 4
DepImages == {DigestOf(S_sha512, c) : c \in 0..(NumDepImages - 1)}
DepImage(c) == DigestOf(S_sha512, c)

RECURSIVE Reverse(_)
Reverse(s) == IF s = <<>> THEN <<>> ELSE Reverse(Tail(s)) \o <<Head(s)>>

\* acirenderer.CreateDepListFromImageID: the list starts with the image; the
\* dependencies of the element at position i are inserted, one after the
\* other, right after it, and the walk goes on with the next element
RECURSIVE createDepList(_, _, _)
createDepList(images, i, deps) ==
    IF i > Len(images) THEN images
    ELSE createDepList(SubSeq(images, 1, i) \o Reverse(deps[images[i]])
                         \o SubSeq(images, i + 1, Len(images)),
                       i + 1, deps)

CreateDepListFromImageID(digest, deps) == createDepList(<<digest>>, 1, deps)

\* a calculateID that sorts the digests before it joins them
calculateIDIn_sorted(digest, deps) ==
    <<S_deps \o Hyphen,
      hashString(Join(SortStrings(CreateDepListFromImageID(digest, deps)),
                      <<",">>))>>

\* calculateID in a store whose manifests name the dependencies deps: "deps-"
\* and the hash of the comma-joined digests of the flattened list
calculateIDIn(digest, deps) ==
    <<S_deps \o Hyphen,
      hashString(Join(CreateDepListFromImageID(digest, deps), <<",">>))>>

\* the sequences of at most two distinct elements of S
ShortLists(S) ==
    {<<>>} \cup {<<a>> : a \in S}
           \cup {l \in {<<a, b>> : a \in S, b \in S} : l[1] # l[2]}

\* the dependencies that the manifests of the images name: an image depends
\* on images with a higher number only
DepGraphs ==
    {g \in [DepImages -> ShortLists(DepImages)] :
        \A c \in 0..(NumDepImages - 1) :
            \A k \in 1..Len(g[DepImage(c)]) :
                \E c2 \in (c + 1)..(NumDepImages - 1) :
                    g[DepImage(c)][k] = DepImage(c2)}

InitID == InitAppc

\* Render(digest, rebuild) up to the tree id, in a store with manifests deps
CallCalculateID(digest, deps, rebuild) ==
    /\ query' = [digest |-> digest, deps |-> deps, rebuild |-> rebuild]
    /\ answer' = [images |-> CreateDepListFromImageID(digest, deps),
                  id |-> calculateIDIn(digest, deps)]
    /\ UNCHANGED callVars

NextID ==
    \E digest \in {DepImage(0), DepImage(1)}, deps \in DepGraphs,
       rebuild \in BOOLEAN :
        CallCalculateID(digest, deps, rebuild)

IDSpec == InitID /\ [][NextID]_vars

\* C31: the tree id is "deps-" followed by the hash of the comma-joined
\* flattened dependency list; two calls give the same id exactly when their
\* lists are the same, entry by entry and in the same order, whatever
\* rebuild is.
C31_TreeIDOfDepList ==
    [][/\ answer'.id = <<S_deps \o Hyphen,
                         hashString(Join(answer'.images, <<",">>))>>
       /\ query # <<>>
          => ((answer'.images = answer.images) <=> (answer'.id = answer.id))]_vars

\* two calls in a row whose lists have the same entries in another order
C31_Witness ==
    /\ query # <<>>
    /\ Len(answer.images) = 3
    /\ query.rebuild
    /\ \E deps \in DepGraphs :
          /\ CreateDepListFromImageID(query.digest, deps) # answer.images
          /\ SortStrings(CreateDepListFromImageID(query.digest, deps))
               = SortStrings(answer.images)

----------------------------------------------------------------------------
(* The media type index of the blob store *)

MT_oci == <<"o","c","i">>
IndexMediaTypes == {MT_aci, MT_oci}

\* a process that writes blobs of two media types, removes blobs and lists
\* the blobs of a media type
NextIndex ==
    \E p \in Procs :
        \/ \E c \in Contents, mt \in IndexMediaTypes :
              CallWriteBlob(p, c, mt, NoBlobData)
        \/ WriteBlobLock(p)
        \/ WriteBlobImport(p)
        \/ WriteBlobTx(p)
        \/ \E q \in Queries, force \in BOOLEAN : CallRemoveBlob(p, q, force)
        \/ RemoveBlobLock(p)
        \/ RemoveBlobRefs(p)
        \/ RemoveBlobInfo(p)
        \/ \E fails \in BOOLEAN : RemoveBlobErase(p, fails)
        \/ \E mt \in IndexMediaTypes : GetBlobsInfosByMediaType(p, mt)

IndexSpec == InitSeq /\ [][NextIndex]_vars

\* the primary BlobInfo row of digest d has media type m
HasMediaType(d, m) ==
    hasBlobInfo(blobDB, d) /\ getBlobInfo(blobDB, d).MediaType = m

\* C32: whatever was written and removed, the lookup by media type m returns
\* exactly the BlobInfo rows whose media type is m, and the index entry of
\* (m, d) exists exactly when the primary row of d has media type m.
C32_MediaTypeIndexMatchesPrimary ==
    \A m \in IndexMediaTypes :
        /\ getBlobInfosByMediaType(blobDB, m)
              = [status |-> "ok", infos |-> BlobInfosOfMediaType(m)]
        /\ \A d \in FullDigests :
              (blobInfoMediaTypeDigestKey(m, d) \in DOMAIN blobDB)
                  <=> HasMediaType(d, m)

\* the direction of C32 that holds: a primary row has its index entry, and
\* the lookup by its media type returns it unless the lookup panics
C32_PrimaryRowIndexed ==
    \A m \in IndexMediaTypes :
        \A d \in FullDigests :
            HasMediaType(d, m)
            => /\ blobInfoMediaTypeDigestKey(m, d) \in DOMAIN blobDB
               /\ getBlobInfosByMediaType(blobDB, m).status = "ok"
                  => getBlobInfo(blobDB, d)
                        \in getBlobInfosByMediaType(blobDB, m).infos

----------------------------------------------------------------------------
(* The info bucket of the tree store: info.go *)

\* checkInfoKey panics when the key part contains '/'
checkInfoKey(k) == ~Contains(k, "/")

\* TRUE when building the image index key panics
infoImageKeyPanics(image, id) ==
    \/ ~checkInfoKey(image)
    \/ ~checkInfoKey(id)
    \/ image = <<>>

\* getInfosByImageDigest: [status, infos].  An index row whose id row is
\* missing panics
getInfosByImageDigest(b, imageDigest) ==
    IF infoImageKeyPanics(imageDigest, <<>>)
    THEN [status |-> "panic", infos |-> {}]
    ELSE IF \E k \in Scan(b, infoImageKey(imageDigest, <<>>)) :
                ~hasInfo(b, PathBase(k))
    THEN [status |-> "panic", infos |-> {}]
    ELSE [status |-> "ok",
          infos |-> {getInfo(b, PathBase(k)) :
                        k \in Scan(b, infoImageKey(imageDigest, <<>>))}]

(* the Infos the callers write *)

InfoIDs == {<<"i","d","0","1">>, <<"i","d","0","2">>, <<"i","d","0","3">>}
InfoDigests == {<<"d","i","g","e","s","t","0","1">>,
                <<"d","i","g","e","s","t","0","2">>}
InfoInputs ==
    {[NilInfo EXCEPT !.ID = id, !.ImageDigest = d] :
        id \in InfoIDs, d \in InfoDigests}

InitInfo == InitAppc

\* a transaction that calls writeInfo(tx, info)
CallWriteInfo(info) ==
    /\ query' = [name |-> "writeInfo", info |-> info]
    /\ answer' = [err |-> "", infos |-> {}]
    /\ treeDB' = writeInfo(treeDB, info)
    /\ UNCHANGED <<blobDB, refDB, files, locks, pc, op, procs, budget,
                   treeDirs, cache>>

\* a transaction that calls removeInfo(tx, id)
CallRemoveInfo(id) ==
    /\ query' = [name |-> "removeInfo", info |-> [NilInfo EXCEPT !.ID = id]]
    /\ answer' = [err |-> "", infos |-> {}]
    /\ treeDB' = removeInfo(treeDB, id)
    /\ UNCHANGED <<blobDB, refDB, files, locks, pc, op, procs, budget,
                   treeDirs, cache>>

\* a transaction that calls getInfosByImageDigest(tx, imageDigest)
CallGetInfosByImageDigest(imageDigest) ==
    /\ query' = [name |-> "getInfosByImageDigest",
                 info |-> [NilInfo EXCEPT !.ImageDigest = imageDigest]]
    /\ answer' = [err |-> IF getInfosByImageDigest(treeDB, imageDigest).status
                               = "ok" THEN "" ELSE "panic",
                  infos |-> getInfosByImageDigest(treeDB, imageDigest).infos]
    /\ UNCHANGED <<treeVars, callVars>>

NextInfo ==
    \/ \E info \in InfoInputs : CallWriteInfo(info)
    \/ \E id \in InfoIDs : CallRemoveInfo(id)
    \/ \E d \in InfoDigests : CallGetInfosByImageDigest(d)

InfoSpec == InitInfo /\ [][NextInfo]_vars

\* the Infos stored in bucket b: the values of the id rows
StoredInfos(b) == {getInfo(b, id) : id \in {x \in InfoIDs : hasInfo(b, x)}}

\* the keys of one id row and one image index row per stored Info
InfoKeys(b) ==
    {infoIDKey(i.ID) : i \in StoredInfos(b)}
        \cup {infoImageKey(i.ImageDigest, i.ID) : i \in StoredInfos(b)}

\* the last call was removeInfo of an id that was not stored
RemovedAbsent ==
    query'.name = "removeInfo" /\ ~hasInfo(treeDB, query'.info.ID)

\* C33: after every call the keys of the info bucket are the id key and the
\* image index key of every stored Info and no other; removeInfo of an id
\* that is not stored leaves the bucket as it was and returns no error; the
\* lookup by image digest returns the stored Infos of that digest and no
\* other.
C33_InfoKeysMatchStored ==
    [][/\ DOMAIN treeDB' = InfoKeys(treeDB')
       /\ RemovedAbsent => (treeDB' = treeDB /\ answer'.err = "")
       /\ query'.name = "getInfosByImageDigest"
          => /\ answer'.err = ""
             /\ answer'.infos =
                   {i \in StoredInfos(treeDB) :
                       i.ImageDigest = query'.info.ImageDigest}]_vars

\* the part of C33 that holds: every stored Info has its two keys, and
\* removeInfo of an id that is not stored changes nothing and returns no error
C33_StoredInfosIndexed ==
    [][/\ InfoKeys(treeDB') \subseteq DOMAIN treeDB'
       /\ RemovedAbsent => (treeDB' = treeDB /\ answer'.err = "")]_vars

----------------------------------------------------------------------------
(* Exclusion between the operations on one tree *)

\* p is inside Render or Remove of id, past the lock
RendersOrRemoves(p, id) == pc[p] \in LockedTreePcs /\ TreeID(p) = id

\* p is inside Check of id, past the lock
Checks(p, id) == pc[p] = "tc_check" /\ TreeID(p) = id

----------------------------------------------------------------------------
(* The manifest cache in front of the blob store *)

NumManifestContents == 3
ManifestContents == 0..(NumManifestContents - 1)
ManifestDigests == {DigestOf(S_sha256, c) : c \in ManifestContents}

\* one process writes images with and without a manifest and archives whose
\* manifest is no JSON, removes them and reads their manifests through the
\* cache
NextManifest ==
    \/ \E p \in Procs :
        \/ \E c \in ManifestContents : CallWriteBlob(p, c, MT_aci, NoBlobData)
        \/ WriteBlobLock(p)
        \/ WriteBlobImport(p)
        \/ WriteBlobTx(p)
        \/ \E q \in ManifestDigests : CallRemoveBlob(p, q, TRUE)
        \/ RemoveBlobLock(p)
        \/ RemoveBlobRefs(p)
        \/ RemoveBlobInfo(p)
        \/ RemoveBlobErase(p, FALSE)
        \/ \E q \in ManifestDigests : GetManifestJSON(p, q)
    \/ \E d \in ManifestDigests : CorruptEntry(d)

ManifestSpec == InitSeq /\ [][NextManifest]_vars

\* the manifest entry of the blob of digest d in the store
ManifestOf(d) == manifestFromImage(files[d])

\* C35: GetManifestJSON(d) of a digest of the blob store returns the content
\* of the manifest entry of blob d, with a decodable entry of d in the cache
\* and with none; an entry is written only for a manifest that decoded; for
\* a blob without a manifest entry the call returns the error of the missing
\* manifest and caches nothing.
C35_CacheTransparent ==
    [][\A p \in Procs :
          \A d \in ManifestDigests :
              (/\ CallStep(p, "GetManifestJSON") /\ op'[p].d = d
               /\ hasBlobInfo(blobDB, d)
               /\ d \in DOMAIN cache => Unmarshal(cache[d]))
              => /\ (ManifestOf(d).err = "" /\ Unmarshal(ManifestOf(d).imj))
                    => /\ op'[p].res = "ok"
                       /\ op'[p].data = ManifestOf(d).imj
                       /\ op'[p].cached = (d \in DOMAIN cache)
                 /\ ManifestOf(d).err # ""
                    => /\ op'[p].res = "err:extract"
                       /\ d \notin DOMAIN cache'
                 /\ \A x \in DOMAIN cache' \ DOMAIN cache :
                       /\ x = d
                       /\ Unmarshal(ManifestOf(d).imj)
                       /\ cache'[x] = ManifestOf(d).imj
                 /\ (ManifestOf(d).err = "" /\ ~Unmarshal(ManifestOf(d).imj))
                    => d \notin DOMAIN cache']_vars

\* a call has returned the manifest from the cache, and a blob whose
\* manifest is no JSON is in the store without an entry
C35_Witness ==
    \E p \in Procs :
        /\ LastOp(p, "GetManifestJSON")
        /\ op[p].cached /\ op[p].res = "ok"
        /\ op[p].data = ManifestOf(op[p].d).imj
        /\ \E d \in ManifestDigests \ DOMAIN cache :
              /\ hasBlobInfo(blobDB, d)
              /\ ManifestOf(d).err = "" /\ ~Unmarshal(ManifestOf(d).imj)

----------------------------------------------------------------------------
(* Key locks and database files: the order in which the operations of the  *)
(* blob store and of the tree store take and release them                   *)

MaxLockCalls == 3

\* the bolt database files; bolt.Open takes a file lock on them, shared for
\* a read-only transaction and exclusive for a read-write one, and waits
\* for it
DB_blobdb == <<"b","l","o","b","d","b">>
DB_refdb == <<"r","e","f","d","b">>
DB_treedb == <<"d","b">>
DBFiles == {DB_blobdb, DB_refdb, DB_treedb}

\* the steps of an operation that wait for or give up a lock
LockKey(key, mode) == [do |-> "lock", key |-> key, mode |-> mode]
UnlockKey(key) == [do |-> "unlock", key |-> key, mode |-> ""]
OpenDB(db, mode) == [do |-> "open", key |-> db, mode |-> mode]
CloseDB(db) == [do |-> "close", key |-> db, mode |-> ""]

\* DB.Do opens the database, runs the functions in one transaction and
\* closes the database when it returns
Do(db, ro) == <<OpenDB(db, IF ro THEN "S" ELSE "X"), CloseDB(db)>>
DoRW(db) == Do(db, FALSE)
DoRO(db) == Do(db, TRUE)

ResolveDigestSteps == DoRO(DB_blobdb)

ReadBlobSteps(d) ==
    ResolveDigestSteps \o <<LockKey(d, "S")>> \o DoRO(DB_blobdb)
        \o <<UnlockKey(d)>>

WriteBlobSteps(d) == <<LockKey(d, "X")>> \o DoRW(DB_blobdb) \o <<UnlockKey(d)>>

RemoveBlobSteps(d) ==
    ResolveDigestSteps \o <<LockKey(d, "X")>> \o DoRW(DB_refdb)
        \o DoRW(DB_blobdb) \o <<UnlockKey(d)>>

\* a SetRef that takes the blob lock inside the transaction on the ref
\* database
SetRefSteps_lockInTx(d) ==
    ResolveDigestSteps
        \o <<OpenDB(DB_refdb, "X"), LockKey(d, "X")>> \o DoRO(DB_blobdb)
        \o <<CloseDB(DB_refdb), UnlockKey(d)>>

\* SetRef: ResolveDigest, the blob lock, HasBlob, writeRef
SetRefSteps(d) ==
    ResolveDigestSteps \o <<LockKey(d, "X")>> \o DoRO(DB_blobdb)
        \o DoRW(DB_refdb) \o <<UnlockKey(d)>>

RemoveRefSteps == DoRW(DB_refdb)

\* Render: ResolveKey, calculateID (which reads the manifest of the image),
\* the tree lock, IsRendered, remove, render (which reads the image and
\* writes the info row)
RenderSteps(d) ==
    ResolveDigestSteps \o ReadBlobSteps(d)
        \o <<LockKey(calculateID(d), "X")>> \o DoRO(DB_treedb)
        \o DoRW(DB_treedb) \o ReadBlobSteps(d) \o DoRW(DB_treedb)
        \o <<UnlockKey(calculateID(d))>>

CheckSteps(id) == <<LockKey(id, "S")>> \o DoRO(DB_treedb) \o <<UnlockKey(id)>>

TreeRemoveSteps(id) ==
    <<LockKey(id, "X")>> \o DoRW(DB_treedb) \o <<UnlockKey(id)>>

\* the operations that a process can start
LockOps ==
    {[name |-> "ReadBlob", steps |-> ReadBlobSteps(d)] : d \in TreeImages}
    \cup {[name |-> "WriteBlob", steps |-> WriteBlobSteps(d)] : d \in TreeImages}
    \cup {[name |-> "RemoveBlob", steps |-> RemoveBlobSteps(d)] : d \in TreeImages}
    \cup {[name |-> "SetRef", steps |-> SetRefSteps(d)] : d \in TreeImages}
    \cup {[name |-> "RemoveRef", steps |-> RemoveRefSteps]}
    \cup {[name |-> "Render", steps |-> RenderSteps(d)] : d \in TreeImages}
    \cup {[name |-> "Check", steps |-> CheckSteps(id)] : id \in TreeIDs}
    \cup {[name |-> "Remove", steps |-> TreeRemoveSteps(id)] : id \in TreeIDs}

InitLock ==
    /\ blobDB = EmptyBucket
    /\ refDB = EmptyBucket
    /\ files = EmptyBucket
    /\ locks = {}
    /\ pc = [p \in Procs |-> "idle"]
    /\ op = [p \in Procs |-> [name |-> "", steps |-> <<>>]]
    /\ procs = Procs
    /\ budget = MaxLockCalls
    /\ query = <<>>
    /\ answer = <<>>
    /\ treeDB = EmptyBucket
    /\ treeDirs = EmptyBucket
    /\ cache = EmptyBucket

lockRest == <<blobDB, refDB, files, procs, query, answer, treeDB, treeDirs,
              cache>>

\* p starts an operation
CallLockOp(p, o) ==
    /\ pc[p] = "idle"
    /\ budget > 0
    /\ budget' = budget - 1
    /\ pc' = [pc EXCEPT ![p] = "run"]
    /\ op' = [op EXCEPT ![p] = o]
    /\ UNCHANGED <<locks, lockRest>>

\* the lock that the next step of p waits for can be granted
Granted(p) ==
    IF Head(op[p].steps).mode = "X"
    THEN CanLockExclusive(p, Head(op[p].steps).key)
    ELSE CanLockShared(p, Head(op[p].steps).key)

\* lock.ExclusiveKeyLock, lock.SharedKeyLock: p waits until the lock is free
KeyLockStep(p) ==
    /\ pc[p] = "run"
    /\ op[p].steps # <<>>
    /\ Head(op[p].steps).do = "lock"
    /\ Granted(p)
    /\ locks' = Lock(p, Head(op[p].steps).key, Head(op[p].steps).mode)
    /\ op' = [op EXCEPT ![p].steps = Tail(@)]
    /\ UNCHANGED <<pc, budget, lockRest>>

\* bolt.Open and Begin: p waits until the file lock is free
OpenStep(p) ==
    /\ pc[p] = "run"
    /\ op[p].steps # <<>>
    /\ Head(op[p].steps).do = "open"
    /\ Granted(p)
    /\ locks' = Lock(p, Head(op[p].steps).key, Head(op[p].steps).mode)
    /\ op' = [op EXCEPT ![p].steps = Tail(@)]
    /\ UNCHANGED <<pc, budget, lockRest>>

\* the transaction ends and the deferred bdb.Close() runs; or the function
\* that took a key lock returns and its deferred Close() runs
ReleaseStep(p) ==
    /\ pc[p] = "run"
    /\ op[p].steps # <<>>
    /\ Head(op[p].steps).do \in {"close", "unlock"}
    /\ locks' = {l \in locks : ~(l.p = p /\ l.key = Head(op[p].steps).key)}
    /\ op' = [op EXCEPT ![p].steps = Tail(@)]
    /\ UNCHANGED <<pc, budget, lockRest>>

\* the operation returns
ReturnOp(p) ==
    /\ pc[p] = "run"
    /\ op[p].steps = <<>>
    /\ pc' = [pc EXCEPT ![p] = "idle"]
    /\ UNCHANGED <<op, locks, budget, lockRest>>

\* a step of the operation fails and the operation returns the error: the
\* deferred Close() calls give up what it holds
FailStep(p) ==
    /\ pc[p] = "run"
    /\ op[p].steps # <<>>
    /\ pc' = [pc EXCEPT ![p] = "idle"]
    /\ op' = [op EXCEPT ![p].steps = <<>>]
    /\ locks' = Unlock(p)
    /\ UNCHANGED <<budget, lockRest>>

NextLock ==
    \E p \in Procs :
        \/ \E o \in LockOps : CallLockOp(p, o)
        \/ KeyLockStep(p)
        \/ OpenStep(p)
        \/ ReleaseStep(p)
        \/ ReturnOp(p)
        \/ FailStep(p)

LockSpec == InitLock /\ [][NextLock]_vars

\* the locks that p holds on database files, and on keys
HeldDBs(p) == {l \in locks : l.p = p /\ l.key \in DBFiles}
HeldBlobLocks(p) == {l \in locks : l.p = p /\ l.key \in TreeImages}
HeldLocks(p) == {l \in locks : l.p = p}

\* p is inside an operation and its next step does not wait
CanProceed(p) ==
    /\ pc[p] = "run"
    /\ \/ op[p].steps = <<>>
       \/ Head(op[p].steps).do \in {"close", "unlock"}
       \/ Granted(p)

\* C36: in every state some process that is inside an operation can take its
\* next step without an error; a process that waits for a key lock has no
\* database open; a process holds at most one blob lock; a process that has
\* returned holds no lock.
C36_NoDeadlock ==
    /\ (\E p \in Procs : pc[p] = "run") => (\E p \in Procs : CanProceed(p))
    /\ \A p \in Procs :
          /\ (/\ pc[p] = "run" /\ op[p].steps # <<>>
              /\ Head(op[p].steps).do = "lock") => HeldDBs(p) = {}
          /\ Cardinality(HeldBlobLocks(p)) <= 1
          /\ pc[p] = "idle" => HeldLocks(p) = {}

\* a process holds the lock of a tree and waits for the lock of a blob that
\* the other process holds, and that process waits for a database
C36_Witness ==
    \E p \in Procs :
        \E q \in Procs \ {p} :
            /\ pc[p] = "run" /\ op[p].steps # <<>>
            /\ \E l \in HeldLocks(p) : l.key \in TreeIDs
            /\ Head(op[p].steps).do = "lock" /\ ~Granted(p)
            /\ pc[q] = "run" /\ op[q].steps # <<>>
            /\ Head(op[q].steps).do = "open"
            /\ HeldBlobLocks(q) # {}

----------------------------------------------------------------------------
(* Fetching the dependencies of an image: fetchImageDeps, addImageDeps *)

MaxDepList == 6

\* the images that can be fetched; image i is the app with i labels
FetchImages == 0..(Cardinality(ACILabels) - 1)
LabelsOfImage(i) == CHOOSE l \in ACILabels : Cardinality(DOMAIN l) = i

\* a dependency of a manifest: the labels of the app, and the order in which
\* the range over d.Labels.ToMap() yields them
DepEntries ==
    UNION {{[labels |-> l, order |-> o] : o \in RangeOrders(DOMAIN l)} :
              l \in ACILabels}

\* dist.NewAppcFromApp(app).ComparableURIString() of every dependency
DistStrOf == [e \in DepEntries |-> NewAppcFromAppIn(ACIName, e.labels, e.order)]
DistStrs == {DistStrOf[e] : e \in DepEntries}

\* dist.NewAppc(distStr) returns an error
NewAppcFails ==
    [s \in DistStrs |->
        NewAppc(s, SomeOrder(DOMAIN Query(urlParse(s)))).err # ""]

\* fetchSingleImage: the hash of the image that the distribution names
FetchedImage ==
    [s \in DistStrs |->
        CHOOSE i \in FetchImages :
            NewAppcFromApp(ACIName, LabelsOfImage(i)) = s]

\* the dependency lists of the manifests of the images
DepLists ==
    {<<>>} \cup {<<a>> : a \in DepEntries}
           \cup {<<a, b>> : a \in DepEntries, b \in DepEntries}
FetchGraphs == [FetchImages -> DepLists]

\* an addImageDeps that queues a dependency whether it was seen or not
RECURSIVE addImageDeps_noSeen(_, _, _)
addImageDeps_noSeen(dependencies, imgsl, seen) ==
    IF dependencies = <<>> THEN [imgsl |-> imgsl, seen |-> seen]
    ELSE addImageDeps_noSeen(Tail(dependencies),
                             Append(imgsl, DistStrOf[Head(dependencies)]),
                             seen \cup {DistStrOf[Head(dependencies)]})

\* addImageDeps over the dependencies of the manifest: the list and the set
\* of seen strings afterwards
RECURSIVE addImageDeps(_, _, _)
addImageDeps(dependencies, imgsl, seen) ==
    IF dependencies = <<>> THEN [imgsl |-> imgsl, seen |-> seen]
    ELSE IF DistStrOf[Head(dependencies)] \in seen
    THEN addImageDeps(Tail(dependencies), imgsl, seen)
    ELSE addImageDeps(Tail(dependencies),
                      Append(imgsl, DistStrOf[Head(dependencies)]),
                      seen \cup {DistStrOf[Head(dependencies)]})

\* no walk has been started
InitDeps ==
    /\ blobDB = EmptyBucket
    /\ refDB = EmptyBucket
    /\ files = EmptyBucket
    /\ locks = {}
    /\ pc = [p \in Procs |-> "idle"]
    /\ op = [p \in Procs |-> NoOp]
    /\ procs = {}
    /\ budget = 0
    /\ query = <<>>
    /\ answer = [status |-> "idle", imgsl |-> <<>>, seen |-> {}, el |-> 1,
                 fetched |-> <<>>]
    /\ treeDB = EmptyBucket
    /\ treeDirs = EmptyBucket
    /\ cache = EmptyBucket

\* fetchImageDeps(hash) up to the loop; deps are the dependency lists of the
\* manifests
CallFetchImageDeps(hash, deps) ==
    /\ answer.status = "idle"
    /\ query' = [hash |-> hash, deps |-> deps]
    /\ answer' = [status |-> "walking",
                  imgsl |-> addImageDeps(deps[hash], <<>>, {}).imgsl,
                  seen |-> addImageDeps(deps[hash], <<>>, {}).seen,
                  el |-> 1, fetched |-> <<>>]
    /\ UNCHANGED callVars

\* one turn of the loop over the list: NewAppc, fetchSingleImage, addImageDeps
FetchNext(fails) ==
    /\ answer.status = "walking"
    /\ answer.el <= Len(answer.imgsl)
    /\ Len(answer.imgsl) <= MaxDepList
    /\ IF NewAppcFails[answer.imgsl[answer.el]] \/ fails
       THEN answer' = [answer EXCEPT !.status = "err"]
       ELSE answer' =
              [answer EXCEPT
                 !.fetched = Append(@, answer.imgsl[answer.el]),
                 !.imgsl = addImageDeps(
                     query.deps[FetchedImage[answer.imgsl[answer.el]]],
                     answer.imgsl, answer.seen).imgsl,
                 !.seen = addImageDeps(
                     query.deps[FetchedImage[answer.imgsl[answer.el]]],
                     answer.imgsl, answer.seen).seen,
                 !.el = @ + 1]
    /\ UNCHANGED <<query, callVars>>

\* the loop has reached the end of the list
ReturnDeps ==
    /\ answer.status = "walking"
    /\ answer.el > Len(answer.imgsl)
    /\ answer' = [answer EXCEPT !.status = "done"]
    /\ UNCHANGED <<query, callVars>>

NextDeps ==
    \/ \E deps \in FetchGraphs : CallFetchImageDeps(0, deps)
    \/ \E fails \in BOOLEAN : FetchNext(fails)
    \/ ReturnDeps

\* a walk that was started goes on
DepsSpec ==
    /\ InitDeps
    /\ [][NextDeps]_vars
    /\ WF_vars((\E fails \in BOOLEAN : FetchNext(fails)) \/ ReturnDeps)

NoDuplicates(s) == \A i, j \in 1..Len(s) : s[i] = s[j] => i = j

\* C37: the walk over the dependencies ends, whatever the graph; no
\* distribution string is put on the list twice and none is fetched twice.
C37_DepsFetchedOnce ==
    /\ [](NoDuplicates(answer.imgsl) /\ NoDuplicates(answer.fetched))
    /\ (answer.status = "walking") ~> (answer.status # "walking")

\* the walk has ended; the manifests name the image that the walk started
\* from (a cycle) and one dependency twice with its labels in two orders, and
\* every distribution was fetched once
C37_Witness ==
    /\ answer.status = "done"
    /\ Len(answer.fetched) = Cardinality(DistStrs)
    /\ \E i \in FetchImages \ {0} :
          \E k \in 1..Len(query.deps[i]) :
              FetchedImage[DistStrOf[query.deps[i][k]]] = 0
    /\ \E i, j \in FetchImages :
          \E k \in 1..Len(query.deps[i]), m \in 1..Len(query.deps[j]) :
              /\ query.deps[i][k] # query.deps[j][m]
              /\ DistStrOf[query.deps[i][k]] = DistStrOf[query.deps[j][m]]

----------------------------------------------------------------------------
(* rkt image gc: the trees that no pod references *)

\* the ids of the trees in the tree store when the collection runs
GCTreeIDs == {calculateID(DepImage(c)) : c \in 0..2}
GC_stage1 == calculateID(DepImage(0))
GC_app1 == calculateID(DepImage(1))
GC_app2 == calculateID(DepImage(2))

\* a pod directory: its state, the tree ids it records, and whether reading
\* them back gives an error
PodStates == {"preparing", "prepared", "run", "exitedGarbage", "garbage"}
\* the states whose pods walkPods(includeMostDirs, ...) visits
includeMostDirs == {"preparing", "prepared", "run", "exitedGarbage"}
Pods ==
    [state : PodStates, stage1 : {GC_stage1}, apps : {{GC_app1}, {GC_app1, GC_app2}},
     stage1Err : BOOLEAN, appsErr : BOOLEAN]
OtherPod ==
    [state |-> "run", stage1 |-> GC_app2, apps |-> {GC_app2},
     stage1Err |-> FALSE, appsErr |-> FALSE]
PodLists == {<<p>> : p \in Pods} \cup {<<p, OtherPod>> : p \in Pods}

\* the walk function of getReferencedTreeStoreIDs: the ids it adds for pod p
podTreeStoreIDs(p) ==
    IF p.stage1Err THEN {}
    ELSE IF p.appsErr THEN {}
    ELSE p.apps \cup {p.stage1}

getReferencedTreeStoreIDs(pods) ==
    UNION {podTreeStoreIDs(pods[i]) :
              i \in {k \in 1..Len(pods) : pods[k].state \in includeMostDirs}}

\* Store.ListIDs: the ids of the info rows (there is no old tree store)
ListIDs(b) == {id \in GCTreeIDs : hasInfo(b, id)}

\* Store.Remove(id) for every id of ids; the removal of the directories of
\* failing fails after the transaction: [db, dirs, errors]
RECURSIVE RemoveTrees(_, _, _, _)
RemoveTrees(b, dirs, ids, failing) ==
    IF ids = {} THEN [db |-> b, dirs |-> dirs, errors |-> 0]
    ELSE LET id == CHOOSE x \in ids : TRUE
             r == RemoveTrees(b, dirs, ids \ {id}, failing)
         IN IF id \notin DOMAIN r.dirs THEN r
            ELSE IF id \in failing
            THEN [db |-> removeInfo(r.db, id),
                  dirs |-> [r.dirs EXCEPT ![id].state = "partial"],
                  errors |-> r.errors + 1]
            ELSE [db |-> removeInfo(r.db, id), dirs |-> Delete(r.dirs, id),
                  errors |-> r.errors]

\* gcTreeStore, which runs under the exclusive prepare lock
gcTreeStore(b, dirs, pods, failing) ==
    RemoveTrees(b, dirs, ListIDs(b) \ getReferencedTreeStoreIDs(pods), failing)

\* the tree store holds the rendered trees of the three images
RECURSIVE InfosOf(_)
InfosOf(ids) ==
    IF ids = {} THEN EmptyBucket
    ELSE LET id == CHOOSE x \in ids : TRUE
         IN writeInfo(InfosOf(ids \ {id}),
                      [NilInfo EXCEPT !.ID = id, !.ImageDigest = id])

InitGC ==
    /\ blobDB = EmptyBucket
    /\ refDB = EmptyBucket
    /\ files = EmptyBucket
    /\ locks = {}
    /\ pc = [p \in Procs |-> "idle"]
    /\ op = [p \in Procs |-> NoOp]
    /\ procs = {}
    /\ budget = 0
    /\ query = <<>>
    /\ answer = [err |-> ""]
    /\ cache = EmptyBucket
    /\ \E ids \in SUBSET GCTreeIDs :
          /\ treeDB = InfosOf(ids)
          /\ treeDirs = [id \in ids |-> [image |-> id, state |-> "rendered"]]

\* rkt image gc collects the trees while the pods are pods
CallGCTreeStore(pods, failing) ==
    /\ query' = [pods |-> pods, before |-> ListIDs(treeDB)]
    /\ answer' = [err |-> IF gcTreeStore(treeDB, treeDirs, pods, failing).errors > 0
                          THEN "failed to remove treestores" ELSE ""]
    /\ treeDB' = gcTreeStore(treeDB, treeDirs, pods, failing).db
    /\ treeDirs' = gcTreeStore(treeDB, treeDirs, pods, failing).dirs
    /\ UNCHANGED <<blobDB, refDB, files, locks, pc, op, procs, budget, cache>>

NextGC ==
    \E pods \in PodLists, failing \in {{}, {GC_app1}, GCTreeIDs} :
        CallGCTreeStore(pods, failing)

GCSpec == InitGC /\ [][NextGC]_vars

\* the tree ids that the pods of the four states record
RecordedIDs(pods) ==
    UNION {pods[i].apps \cup {pods[i].stage1} :
              i \in {k \in 1..Len(pods) : pods[k].state \in includeMostDirs}}

\* C38: a collection removes no tree whose id a pod in the preparing,
\* prepared, run or exited-garbage state records, whether or not the ids of
\* that pod could be read.
C38_GCKeepsReferenced ==
    [][\A id \in RecordedIDs(query'.pods) :
          /\ hasInfo(treeDB, id) => hasInfo(treeDB', id)
          /\ id \in DOMAIN treeDirs
             => (id \in DOMAIN treeDirs' /\ treeDirs'[id] = treeDirs[id])]_vars

\* the part of C38 that holds: the trees whose ids were read from a pod stay,
\* and every other tree of the store is removed from the database
C38_GCKeepsReadIDs ==
    [][/\ \A id \in getReferencedTreeStoreIDs(query'.pods) :
             hasInfo(treeDB, id) => hasInfo(treeDB', id)
       /\ \A id \in ListIDs(treeDB) \ getReferencedTreeStoreIDs(query'.pods) :
             ~hasInfo(treeDB', id)]_vars

----------------------------------------------------------------------------
(* The fetcher: fetchSingleImage and the flags StoreOnly and NoStore *)

\* the distributions handed to the fetcher, each with the string under which
\* its ref is stored (a short string stands for ComparableURIString) and,
\* for an archive, the scheme of its URL
ID_file == <<"f",":","x">>
ID_http == <<"h",":","x">>
ID_noscheme == <<"n",":","x">>
FetchDists ==
    {[type |-> DistTypeACIArchive, scheme |-> "file", id |-> ID_file],
     [type |-> DistTypeACIArchive, scheme |-> "http", id |-> ID_http],
     [type |-> DistTypeACIArchive, scheme |-> "", id |-> ID_noscheme],
     [type |-> DistTypeAppc, scheme |-> "", id |-> ID_appc],
     [type |-> DistTypeDocker, scheme |-> "", id |-> ID_docker]}

FetchFlags == [StoreOnly : BOOLEAN, NoStore : BOOLEAN]

\* the store as the fetcher sees it, and what a function of the fetcher
\* gives back: the store, the hash, the error, and the places it read an
\* image from
StoreOf(r, b, f) == [refDB |-> r, blobDB |-> b, files |-> f]
Fetched(s, h, err, read) == [s |-> s, h |-> h, err |-> err, read |-> read]

\* Store.GetRef of the image store: the digest of the ref, or ErrRefNotFound
StoreGetRef(s, id) ==
    IF hasRef(s.refDB, id)
    THEN [digest |-> getRef(s.refDB, id).Digest, err |-> ""]
    ELSE [digest |-> <<>>, err |-> "ErrRefNotFound"]

\* Store.SetRef of a single process: [s, err]
StoreSetRef(s, id, h) ==
    IF ~HasBlob(s.blobDB, h)
    THEN [s |-> s, err |-> "cannot set reference to unexistant blob"]
    ELSE [s |-> [s EXCEPT !.refDB = writeRef(@, [ID |-> id, Digest |-> h])],
          err |-> ""]

\* Hash of the file, http, name and docker fetchers: the image of content c
\* is read from source and written to the store, or the transport fails
Hash(s, source, c, fails) ==
    IF fails THEN Fetched(s, <<>>, "transport", {source})
    ELSE Fetched([s EXCEPT
                    !.files = Import(@, DigestOf(S_sha256, c), c),
                    !.blobDB = writeBlobInfo(@, [Digest |-> DigestOf(S_sha256, c),
                                                 MediaType |-> MT_aci,
                                                 Size |-> c + 1, Data |-> NilMap])],
                 DigestOf(S_sha256, c), "", {source})

fetchSingleImageByPath(f, s, c, fails) == Hash(s, "file", c, fails)

fetchSingleImageByHTTPURL(f, s, c, fails) ==
    IF ~f.StoreOnly THEN Hash(s, "remote", c, fails)
    ELSE Fetched(s, <<>>, "", {})

maybeFetchDockerURLFromRemote(f, s, c, fails) ==
    IF ~f.StoreOnly THEN Hash(s, "remote", c, fails)
    ELSE Fetched(s, <<>>, "", {})

maybeFetchImageFromRemote(f, s, c, fails) ==
    IF ~f.StoreOnly THEN Hash(s, "remote", c, fails)
    ELSE Fetched(s, <<>>, "", {})

\* the tail of the fetch functions: the ref is set to the hash that was
\* fetched
SetRefTo(r, id) ==
    IF StoreSetRef(r.s, id, r.h).err # ""
    THEN Fetched(r.s, <<>>, StoreSetRef(r.s, id, r.h).err, r.read)
    ELSE Fetched(StoreSetRef(r.s, id, r.h).s, r.h, "", r.read)

\* what fetchACIArchive does with the result of the transport
ArchiveFetched(r, id) ==
    IF r.err # "" THEN Fetched(r.s, <<>>, r.err, r.read)
    ELSE IF r.h = <<>> THEN Fetched(r.s, <<>>, "unable to fetch image", r.read)
    ELSE SetRefTo(r, id)

fetchACIArchive(f, s, d, c, fails) ==
    IF ~f.NoStore /\ StoreGetRef(s, d.id).err # "ErrRefNotFound"
    THEN Fetched(s, StoreGetRef(s, d.id).digest, "", {})
    ELSE IF d.scheme \in {"http", "https"}
    THEN ArchiveFetched(fetchSingleImageByHTTPURL(f, s, c, fails), d.id)
    ELSE IF d.scheme = "file"
    THEN ArchiveFetched(fetchSingleImageByPath(f, s, c, fails), d.id)
    ELSE Fetched(s, <<>>, "bad scheme", {})

\* what the docker and the name fetch do with the result of the transport
RemoteFetched(r, id) ==
    IF r.err # "" THEN Fetched(r.s, <<>>, r.err, r.read)
    ELSE IF r.h # <<>> THEN SetRefTo(r, id)
    ELSE Fetched(r.s, <<>>, "unable to fetch image", r.read)

fetchSingleImageByDockerURL(f, s, d, c, fails) ==
    IF ~f.NoStore /\ StoreGetRef(s, d.id).err # "ErrRefNotFound"
    THEN Fetched(s, StoreGetRef(s, d.id).digest, "", {})
    ELSE RemoteFetched(maybeFetchDockerURLFromRemote(f, s, c, fails), d.id)

\* getDigestFromApp: [digest, err]; a ref whose blob is missing gives an
\* empty digest and no error
getDigestFromApp(s, id) ==
    IF StoreGetRef(s, id).err # "" THEN StoreGetRef(s, id)
    ELSE IF ~HasBlob(s.blobDB, StoreGetRef(s, id).digest)
    THEN [digest |-> <<>>, err |-> ""]
    ELSE StoreGetRef(s, id)

\* maybeCheckStoreForApp: [digest, err]
maybeCheckStoreForApp(f, s, id) ==
    IF f.NoStore THEN [digest |-> <<>>, err |-> ""]
    ELSE IF getDigestFromApp(s, id).err = "" THEN getDigestFromApp(s, id)
    ELSE [digest |-> <<>>, err |-> ""]

fetchSingleImageByName(f, s, d, c, fails) ==
    IF maybeCheckStoreForApp(f, s, d.id).digest # <<>>
    THEN Fetched(s, maybeCheckStoreForApp(f, s, d.id).digest, "", {})
    ELSE RemoteFetched(maybeFetchImageFromRemote(f, s, c, fails), d.id)

fetchSingleImage(f, s, d, c, fails) ==
    CASE d.type = DistTypeACIArchive -> fetchACIArchive(f, s, d, c, fails)
      [] d.type = DistTypeAppc -> fetchSingleImageByName(f, s, d, c, fails)
      [] d.type = DistTypeDocker -> fetchSingleImageByDockerURL(f, s, d, c, fails)

InitFetch == InitAppc

\* a fetcher with flags f fetches distribution d; c is the image that the
\* file or the remote location holds, and turn tells one call from the next
CallFetchSingleImage(f, d, c, fails) ==
    /\ query' = [f |-> f, d |-> d,
                 turn |-> IF query = <<>> THEN TRUE ELSE ~query.turn]
    /\ answer' = [h |-> fetchSingleImage(f, StoreOf(refDB, blobDB, files), d, c, fails).h,
                  err |-> fetchSingleImage(f, StoreOf(refDB, blobDB, files), d, c, fails).err,
                  read |-> fetchSingleImage(f, StoreOf(refDB, blobDB, files), d, c, fails).read]
    /\ refDB' = fetchSingleImage(f, StoreOf(refDB, blobDB, files), d, c, fails).s.refDB
    /\ blobDB' = fetchSingleImage(f, StoreOf(refDB, blobDB, files), d, c, fails).s.blobDB
    /\ files' = fetchSingleImage(f, StoreOf(refDB, blobDB, files), d, c, fails).s.files
    /\ UNCHANGED <<locks, pc, op, envVars>>

\* rkt image rm removes the image of a digest together with its refs
CallRemoveImage(d) ==
    /\ hasBlobInfo(blobDB, d)
    /\ blobDB' = removeBlobInfo(blobDB, d)
    /\ refDB' = removeRefs(refDB, getRefsByDigest(refDB, d))
    /\ files' = Delete(files, d)
    /\ UNCHANGED <<query, answer, locks, pc, op, envVars>>

NextFetch ==
    \/ \E f \in FetchFlags, d \in FetchDists, fails \in BOOLEAN :
          CallFetchSingleImage(f, d, 0, fails)
    \/ \E d \in FullDigests : CallRemoveImage(d)

FetchSpec == InitFetch /\ [][NextFetch]_vars

\* the last step was a fetch with StoreOnly set
StoreOnlyFetch == query' # query /\ query'.f.StoreOnly

\* C39: a fetch with StoreOnly reads no image from a file or from a remote
\* location; it returns a digest only when the store has a ref of the
\* distribution; when the store has none it fails and writes no blob and no
\* ref.
C39_StoreOnlyReadsStore ==
    [][StoreOnlyFetch
       => /\ answer'.read = {}
          /\ answer'.err = ""
             => /\ hasRef(refDB, query'.d.id)
                /\ answer'.h = getRef(refDB, query'.d.id).Digest
          /\ ~hasRef(refDB, query'.d.id)
             => /\ answer'.err # ""
                /\ <<refDB', blobDB', files'>> = <<refDB, blobDB, files>>]_vars

\* what C39 says, of the distributions that are no archive at a file URL
C39_StoreOnlyButFile ==
    [][(StoreOnlyFetch /\ query'.d.scheme # "file")
       => /\ answer'.read = {}
          /\ answer'.err = ""
             => /\ hasRef(refDB, query'.d.id)
                /\ answer'.h = getRef(refDB, query'.d.id).Digest
          /\ ~hasRef(refDB, query'.d.id)
             => /\ answer'.err # ""
                /\ <<refDB', blobDB', files'>> = <<refDB, blobDB, files>>]_vars

====
